---- MODULE Spec2Model ----
(***************************************************************************)
(* Model of the research / caching / assembly pipeline of                  *)
(* src/src/services/platformResearchService.ts and of the workflow state   *)
(* of src/src/App.tsx.                                                     *)
(*                                                                         *)
(* The specifications share the variables below:                          *)
(*   SpecRetry   - withRetry applied to every bounded network behaviour    *)
(*   Spec        - a browser session running researchAllPlatforms,         *)
(*                 generateReviewsOnly and deletePlatformFromCache over    *)
(*                 the two localStorage caches while the clock advances    *)
(*   SpecCite    - deduplicateCitations applied to bounded citation lists  *)
(*   SpecArticle - assembleArticleFromCache and generateFullArticle        *)
(*   SpecHtml    - ensureInTextCitations on bounded HTML                   *)
(*   SpecReview  - generatePlatformReview on research records              *)
(*   SpecAssemble - assembleArticleFromCache run twice on the same review  *)
(*                 cache with different research caches                    *)
(*   SpecDelete  - deletePlatformFromCache with failing cache blocks       *)
(*   SpecParse   - researchPlatform and generateIntroduction on responses  *)
(*                 that may not parse as JSON                              *)
(*   SpecInterleave - a research loop and a review loop of two tabs,       *)
(*                 interleaved at their awaits, with deletions             *)
(*   SpecApp     - handleStartResearch and handleAssembleArticle runs of   *)
(*                 the App component                                       *)
(***************************************************************************)
EXTENDS Integers, Sequences, FiniteSets, TLC

VARIABLES
    now,            \* Date.now(), in hours
    researchCache,  \* localStorage['platform_research_cache'], by key
    reviewCache,    \* localStorage['platform_review_cache'], by key
    call,           \* the running researchAllPlatforms / generateReviewsOnly
    history,        \* what the caller holds of the finished calls, in order
    rt,             \* SpecRetry: one withRetry invocation
    cz,             \* SpecCite: one deduplicateCitations invocation
    job,            \* SpecArticle: one article pipeline invocation
    unit            \* the other specifications: one invocation of the
                    \* function the specification is about, or the state
                    \* of the component

vars == <<now, researchCache, reviewCache, call, history, rt, cz, job, unit>>

(***************************************************************************)
(* Bounds of the model                                                     *)
(***************************************************************************)
MaxScriptLen == 3       \* longest network behaviour tried in SpecRetry
MaxRetriesTried == 2    \* largest maxRetries tried in SpecRetry
TickHours == 24         \* hours the clock advances in one step
MaxNow == 48            \* the clock stops advancing here
MaxCiteLen == 3         \* longest citation list tried in SpecCite
MaxHtmlLen == 3         \* longest HTML (in tokens) tried in SpecHtml
MaxMinCount == 2        \* largest minCount tried in SpecHtml
MaxAppRuns == 3         \* handler runs of one SpecApp session

Null == "null"          \* JavaScript null / undefined

(***************************************************************************)
(* Strings.  toLowerCase and includes are given by what they do on the     *)
(* strings of the model.                                                   *)
(***************************************************************************)
ToLowerCase(s) ==
    CASE s = "Acme" -> "acme"
      [] s = "ACME" -> "acme"
      [] s = "Bravo" -> "bravo"
      [] s = "Charlie" -> "charlie"
      [] s = "A.COM" -> "a.com"
      [] s = "B.com" -> "b.com"
      [] s = "Unknown" -> "unknown"
      [] s = "Not publicly disclosed" -> "not publicly disclosed"
      [] s = "API error: 503 - Service Unavailable"
            -> "api error: 503 - service unavailable"
      [] s = "API error: 529 - Overloaded" -> "api error: 529 - overloaded"
      [] s = "API error: 429 - Rate limit exceeded"
            -> "api error: 429 - rate limit exceeded"
      [] s = "Failed to fetch" -> "failed to fetch"
      [] s = "API error: 401 - invalid_api_key"
            -> "api error: 401 - invalid_api_key"
      [] OTHER -> s

\* s.includes(needle), for the needles withRetry looks for
Includes(s, needle) ==
    CASE s = "API error: 503 - Service Unavailable" -> needle \in {"503"}
      [] s = "api error: 503 - service unavailable"
            -> needle \in {"503", "unavailable"}
      [] s = "api error: 529 - overloaded" -> needle \in {"overloaded"}
      [] s = "api error: 429 - rate limit exceeded"
            -> needle \in {"rate limit"}
      [] s = "failed to fetch" -> needle \in {"failed to fetch"}
      [] OTHER -> FALSE

ErrorMessages ==
    { "API error: 503 - Service Unavailable",
      "API error: 529 - Overloaded",
      "API error: 429 - Rate limit exceeded",
      "Failed to fetch",
      "API error: 401 - invalid_api_key" }

(***************************************************************************)
(* withRetry (lines 33-73).  The network is a script: the k-th element is  *)
(* what the k-th invocation of fn does (resolve with a value, or reject    *)
(* with an Error carrying a message); a script that is shorter than the    *)
(* run repeats its last element.                                           *)
(***************************************************************************)
Resolve(v) == [ok |-> TRUE, value |-> v, message |-> ""]
Reject(m) == [ok |-> FALSE, value |-> Null, message |-> m]

Answer(script, k) ==
    IF k <= Len(script) THEN script[k] ELSE script[Len(script)]

\* mutant: the markers are looked for in the message as it is, not in its
\* lower-cased form
isRetryable_caseSensitive(message) ==
    \/ Includes(message, "503")
    \/ Includes(message, "overloaded")
    \/ Includes(message, "unavailable")
    \/ Includes(message, "rate limit")
    \/ Includes(message, "econnreset")
    \/ Includes(message, "connection reset")
    \/ Includes(message, "incomplete envelope")
    \/ Includes(message, "protocol error")
    \/ Includes(message, "networkerror")
    \/ Includes(message, "failed to fetch")

isRetryable(message) ==
    \E lower \in {ToLowerCase(message)} :
    \/ Includes(message, "503")
    \/ Includes(lower, "overloaded")
    \/ Includes(lower, "unavailable")
    \/ Includes(lower, "rate limit")
    \/ Includes(lower, "econnreset")
    \/ Includes(lower, "connection reset")
    \/ Includes(lower, "incomplete envelope")
    \/ Includes(lower, "protocol error")
    \/ Includes(lower, "networkerror")
    \/ Includes(lower, "failed to fetch")

is503(message) ==
    Includes(message, "503") \/ Includes(ToLowerCase(message), "overloaded")

RECURSIVE Pow(_, _)
Pow(b, e) == IF e = 0 THEN 1 ELSE b * Pow(b, e - 1)

DelayCapMs == 60000

\* mutant: the product is not capped
delayMs_uncapped(baseDelayMs, message, attempt) ==
    LET num == IF is503(message) THEN baseDelayMs * Pow(5, attempt)
                                 ELSE baseDelayMs * Pow(2, attempt)
        den == IF is503(message) THEN Pow(2, attempt) ELSE 1
    IN num \div den

\* Math.min(baseDelayMs * Math.pow(multiplier, attempt), 60000) with
\* multiplier 2.5 = 5/2 or 2; below the cap the product is a whole number
\* for the base delays the code passes (5000 and 3000).
delayMs(baseDelayMs, message, attempt) ==
    LET num == IF is503(message) THEN baseDelayMs * Pow(5, attempt)
                                 ELSE baseDelayMs * Pow(2, attempt)
        den == IF is503(message) THEN Pow(2, attempt) ELSE 1
    IN IF num >= DelayCapMs * den THEN DelayCapMs ELSE num \div den

CallEvent == [type |-> "call", ms |-> 0]
SleepEvent(d) == [type |-> "sleep", ms |-> d]

RECURSIVE withRetryFrom(_, _, _, _, _)
withRetryFrom(script, maxRetries, baseDelayMs, attempt, events) ==
    IF attempt > maxRetries
    THEN [threw |-> TRUE, value |-> Null,
          error |-> Answer(script, attempt).message, events |-> events]
    ELSE
        LET r == Answer(script, attempt + 1)
            ev == Append(events, CallEvent)
        IN IF r.ok
           THEN [threw |-> FALSE, value |-> r.value, error |-> "",
                 events |-> ev]
           ELSE IF ~isRetryable(r.message) \/ attempt = maxRetries
                THEN [threw |-> TRUE, value |-> Null, error |-> r.message,
                      events |-> ev]
                ELSE withRetryFrom(script, maxRetries, baseDelayMs,
                         attempt + 1,
                         Append(ev, SleepEvent(
                             delayMs(baseDelayMs, r.message, attempt))))

withRetry(script, maxRetries, baseDelayMs) ==
    withRetryFrom(script, maxRetries, baseDelayMs, 0, <<>>)

DefaultMaxRetries == 6
DefaultBaseDelayMs == 5000

\* number of events of a type in an event list
RECURSIVE CountType(_, _)
CountType(events, t) ==
    IF events = <<>> THEN 0
    ELSE (IF events[1].type = t THEN 1 ELSE 0) + CountType(Tail(events), t)

(***************************************************************************)
(* Citations (lines 221-276)                                               *)
(***************************************************************************)
\* buildGoogleSearchUrl: a search URL is determined by its query
buildGoogleSearchUrl(title) == <<"https://www.google.com/search?q=", title>>

\* new URL(url).hostname, Null where the constructor throws
tryGetDomainFromUrl(url) ==
    CASE url = "https://a.com/review" -> "a.com"
      [] url = "https://www.a.com/licence" -> "www.a.com"
      [] url = "https://b.com/" -> "b.com"
      [] OTHER -> Null

isProbablyUrl(value) ==
    value \in {"https://a.com/review", "https://www.a.com/licence",
               "https://b.com/"}

\* domain.replace(/^www\./, '')
StripWww(domain) == IF domain = "www.a.com" THEN "a.com" ELSE domain

RECURSIVE FlatSeq(_)
FlatSeq(ss) == IF ss = <<>> THEN <<>> ELSE ss[1] \o FlatSeq(Tail(ss))

CitationOfSource(source) ==
    IF isProbablyUrl(source)
    THEN LET d == tryGetDomainFromUrl(source) IN
         [title |-> source, sourceUrl |-> <<source>>,
          googleSearchUrl |-> buildGoogleSearchUrl(source),
          domain |-> StripWww(IF d = Null THEN "source" ELSE d)]
    ELSE [title |-> source, sourceUrl |-> buildGoogleSearchUrl(source),
          googleSearchUrl |-> buildGoogleSearchUrl(source),
          domain |-> "research"]

extractCitationsFromSources(sources) ==
    LET kept == SelectSeq(sources, LAMBDA s : s # "") IN
    [k \in 1..Len(kept) |-> CitationOfSource(kept[k])]

\* mutant: the domain is compared as it is written
RECURSIVE dedupFrom_caseSensitive(_, _)
dedupFrom_caseSensitive(citations, seen) ==
    LET Filter(cs, sn) ==
            IF cs = <<>> THEN <<>>
            ELSE LET c == cs[1]
                     key == c.domain
                 IN IF key \in sn
                    THEN dedupFrom_caseSensitive(Tail(cs), sn)
                    ELSE <<c>> \o dedupFrom_caseSensitive(Tail(cs),
                                                          sn \cup {key})
    IN CHOOSE out \in {Filter(cs, sn) : cs \in {citations}, sn \in {seen}} :
          TRUE

\* the filter of deduplicateCitations, with the set of keys seen so far
\* (the singleton sets bind the two arguments to their values)
RECURSIVE dedupFrom(_, _)
dedupFrom(citations, seen) ==
    LET Filter(cs, sn) ==
            IF cs = <<>> THEN <<>>
            ELSE LET c == cs[1]
                     key == ToLowerCase(c.domain)
                 IN IF key \in sn
                    THEN dedupFrom(Tail(cs), sn)
                    ELSE <<c>> \o dedupFrom(Tail(cs), sn \cup {key})
    IN CHOOSE out \in {Filter(cs, sn) : cs \in {citations}, sn \in {seen}} :
          TRUE

deduplicateCitations(citations) == dedupFrom(citations, {})

(***************************************************************************)
(* Model responses.  A response text either embeds a JSON value           *)
(* (json # Null) or does not; parseJsonResponse (lines 76-92) extracts it  *)
(* or throws.                                                              *)
(***************************************************************************)
Placeholders == {"unknown", "not publicly disclosed"}

InfoFull ==
    [license |-> "Curacao", country |-> "Curacao", company |-> "Acme NV",
     yearEstablished |-> "2015", minDeposit |-> "$10",
     payoutSpeed |-> "24 hours", supportedCurrencies |-> <<"USD">>,
     paymentMethods |-> <<"Visa">>]

InfoSparse ==
    [license |-> "Curacao", country |-> "Unknown",
     company |-> "Not publicly disclosed", yearEstablished |-> "Unknown",
     minDeposit |-> "", payoutSpeed |-> "Unknown",
     supportedCurrencies |-> <<"Unknown">>, paymentMethods |-> <<"Unknown">>]

\* three fields filled in, the two lists empty
InfoHollow ==
    [license |-> "Curacao", country |-> "Curacao", company |-> "Acme NV",
     yearEstablished |-> "Unknown", minDeposit |-> "Unknown",
     payoutSpeed |-> "Unknown", supportedCurrencies |-> <<>>,
     paymentMethods |-> <<>>]

JsonFull ==
    [shortDescription |-> "A licensed casino", hasInfosheet |-> TRUE,
     infosheet |-> InfoFull, keyFeatures |-> <<"Live casino">>,
     pros |-> <<"Fast payouts", "Licensed">>, cons |-> <<"No app">>,
     sources |-> <<"https://a.com/review", "https://www.a.com/licence",
                   "https://b.com/">>]

JsonSparse ==
    [shortDescription |-> "", hasInfosheet |-> TRUE,
     infosheet |-> InfoSparse, keyFeatures |-> <<>>,
     pros |-> <<>>, cons |-> <<>>, sources |-> <<>>]

TextFull == [json |-> <<JsonFull>>]
TextSparse == [json |-> <<JsonSparse>>]
TextHollow == [json |-> <<[JsonFull EXCEPT !.infosheet = InfoHollow]>>]
TextGarbage == [json |-> <<>>]

\* parseJsonResponse: <<value>> when the text holds JSON, <<>> when it throws
parseJsonResponse(text) == text.json

ValueGoodStr(s) == s # "" /\ ToLowerCase(s) \notin Placeholders

\* an array is truthy; String(array) joins its elements with ','
ValueGoodArr(a) ==
    IF Len(a) = 1 THEN ToLowerCase(a[1]) \notin Placeholders ELSE TRUE

GoodFieldCount(info) ==
    Cardinality({k \in {"license", "country", "company", "yearEstablished",
                        "minDeposit", "payoutSpeed"} : ValueGoodStr(info[k])})
    + Cardinality({k \in {"supportedCurrencies", "paymentMethods"} :
                        ValueGoodArr(info[k])})

\* initialParsed.infosheet || initialParsed: without an infosheet the values
\* of the whole response object are counted
GoodValueCount(obj) ==
    IF obj.hasInfosheet THEN GoodFieldCount(obj.infosheet)
    ELSE (IF ValueGoodStr(obj.shortDescription) THEN 1 ELSE 0)
         + Cardinality({k \in {"keyFeatures", "pros", "cons", "sources"} :
                            ValueGoodArr(obj[k])})

GoodDataThreshold == 5

hasGoodData(text) ==
    LET p == parseJsonResponse(text) IN
    IF p = <<>> THEN FALSE ELSE GoodValueCount(p[1]) >= GoodDataThreshold

(***************************************************************************)
(* researchPlatform (lines 540-711)                                        *)
(***************************************************************************)
Verticals == {"gambling", "crypto"}
TONGYI_DEEP_RESEARCH == "tongyi"
PERPLEXITY_SONAR == "perplexity"
ResearchModels == {TONGYI_DEEP_RESEARCH, PERPLEXITY_SONAR}

ResearchMaxRetries == 5
TongyiBaseDelayMs == 5000
SonarBaseDelayMs == 3000
VerifyPauseMs == 3000

InfoNotDisclosed ==
    [license |-> "Not publicly disclosed", country |-> "Not publicly disclosed",
     company |-> "Not publicly disclosed",
     yearEstablished |-> "Not publicly disclosed",
     minDeposit |-> "Not publicly disclosed",
     payoutSpeed |-> "Not publicly disclosed",
     supportedCurrencies |-> <<>>, paymentMethods |-> <<>>]

InfoFailed ==
    [license |-> "Research failed", country |-> "Research failed",
     company |-> "Research failed", yearEstablished |-> "Research failed",
     minDeposit |-> "Research failed", payoutSpeed |-> "Research failed",
     supportedCurrencies |-> <<>>, paymentMethods |-> <<>>]

Stamp(info, dataSource, retrievedAt) ==
    [k \in DOMAIN info \cup {"dataSource", "retrievedAt"} |->
        IF k = "dataSource" THEN dataSource
        ELSE IF k = "retrievedAt" THEN retrievedAt ELSE info[k]]

\* new URL(s.startsWith('http') ? s : 'https://' + s).hostname
\*     .replace('www.', ''), or s itself where the constructor throws
SourceDomain(s) ==
    LET d == IF s = "B.com" THEN "b.com" ELSE tryGetDomainFromUrl(s)
    IN IF d = Null THEN s ELSE StripWww(d)

RECURSIVE UniqueSeq(_, _)
UniqueSeq(s, seen) ==
    IF s = <<>> THEN <<>>
    ELSE IF s[1] \in seen THEN UniqueSeq(Tail(s), seen)
         ELSE <<s[1]>> \o UniqueSeq(Tail(s), seen \cup {s[1]})

Slice(s, n) == SubSeq(s, 1, IF Len(s) < n THEN Len(s) ELSE n)

PerplexityCitation(url) ==
    LET d == tryGetDomainFromUrl(url) IN
    IF d = Null
    THEN [title |-> url, sourceUrl |-> <<url>>,
          googleSearchUrl |-> buildGoogleSearchUrl(url), domain |-> url]
    ELSE [title |-> StripWww(d), sourceUrl |-> <<url>>,
          googleSearchUrl |-> buildGoogleSearchUrl(StripWww(d)),
          domain |-> StripWww(d)]

\* mutant: the degraded record is not marked as failed
ErrorRecord_completed(platformName, message, clock) ==
    [name |-> platformName, shortDescription |-> "",
     infosheet |-> Stamp(InfoFailed, <<"Research failed">>, clock),
     keyFeatures |-> <<>>, pros |-> <<>>, cons |-> <<>>,
     rawResearchSummary |-> [json |-> <<>>], citations |-> <<>>,
     researchStatus |-> "completed", error |-> message]

ErrorRecord(platformName, message, clock) ==
    [name |-> platformName, shortDescription |-> "",
     infosheet |-> Stamp(InfoFailed, <<"Research failed">>, clock),
     keyFeatures |-> <<>>, pros |-> <<>>, cons |-> <<>>,
     rawResearchSummary |-> [json |-> <<>>], citations |-> <<>>,
     researchStatus |-> "error", error |-> message]

CompletedRecord(platformName, researchModel, finalContent, perplexityCitations, clock) ==
    LET parsed == parseJsonResponse(finalContent)[1]
        usePplx == researchModel = PERPLEXITY_SONAR
                   /\ Len(perplexityCitations) > 0
        citations == IF usePplx
                     THEN [k \in 1..Len(perplexityCitations) |->
                              PerplexityCitation(perplexityCitations[k])]
                     ELSE extractCitationsFromSources(parsed.sources)
        allSources == IF usePplx THEN perplexityCitations ELSE parsed.sources
        sourceDomains ==
            Slice(UniqueSeq([k \in 1..Len(allSources) |->
                                SourceDomain(allSources[k])], {}), 3)
        info == IF parsed.hasInfosheet THEN parsed.infosheet
                ELSE InfoNotDisclosed
    IN [name |-> platformName,
        shortDescription |-> parsed.shortDescription,
        infosheet |-> Stamp(info,
                            IF sourceDomains = <<>> THEN <<"Research sources">>
                            ELSE sourceDomains, clock),
        keyFeatures |-> parsed.keyFeatures, pros |-> parsed.pros,
        cons |-> parsed.cons, rawResearchSummary |-> finalContent,
        citations |-> citations, researchStatus |-> "completed",
        error |-> ""]

\* net.first and net.second are the network scripts of the first and of the
\* verification request; the result is the returned record with the network
\* calls and sleeps made on the way
researchPlatform(platformName, vertical, researchModel, net, clock) ==
    IF researchModel = PERPLEXITY_SONAR
    THEN
        LET r == withRetry(net.first, ResearchMaxRetries, SonarBaseDelayMs) IN
        IF r.threw
        THEN [record |-> ErrorRecord(platformName, r.error, clock),
              events |-> r.events]
        ELSE IF parseJsonResponse(r.value.content) = <<>>
             THEN [record |-> ErrorRecord(platformName, "Invalid JSON format",
                                          clock),
                   events |-> r.events]
             ELSE [record |-> CompletedRecord(platformName, researchModel,
                                  r.value.content, r.value.citations, clock),
                   events |-> r.events]
    ELSE
        LET r1 == withRetry(net.first, ResearchMaxRetries, TongyiBaseDelayMs)
        IN
        IF r1.threw
        THEN [record |-> ErrorRecord(platformName, r1.error, clock),
              events |-> r1.events]
        ELSE
            LET skipVerification == hasGoodData(r1.value.content)
                r2 == withRetry(net.second, ResearchMaxRetries,
                                TongyiBaseDelayMs)
                ev == IF skipVerification THEN r1.events
                      ELSE r1.events \o <<SleepEvent(VerifyPauseMs)>>
                               \o r2.events
                finalContent == IF skipVerification THEN r1.value.content
                                ELSE r2.value.content
            IN
            IF ~skipVerification /\ r2.threw
            THEN [record |-> ErrorRecord(platformName, r2.error, clock),
                  events |-> ev]
            ELSE IF parseJsonResponse(finalContent) = <<>>
                 THEN [record |-> ErrorRecord(platformName,
                                      "Invalid JSON format", clock),
                       events |-> ev]
                 ELSE [record |-> CompletedRecord(platformName, researchModel,
                                      finalContent, <<>>, clock),
                       events |-> ev]

(***************************************************************************)
(* The two caches (lines 713-929).  A cache is the parsed localStorage     *)
(* object: a function from the keys it holds to their entries.             *)
(***************************************************************************)
CACHE_EXPIRY_HOURS == 24

Put(cache, key, entry) ==
    [k \in DOMAIN cache \cup {key} |-> IF k = key THEN entry ELSE cache[k]]

Remove(cache, key) == [k \in DOMAIN cache \ {key} |-> cache[k]]

\* mutant: the entry is stored under the name as given
saveToResearchCache_rawKey(cache, platformName, data, vertical, clock) ==
    Put(cache, platformName,
        [data |-> data, timestamp |-> clock, vertical |-> vertical])

\* mutant: an existing entry keeps the vertical it was first written under
saveToResearchCache_keepVertical(cache, platformName, data, vertical, clock) ==
    LET key == ToLowerCase(platformName) IN
    Put(cache, key,
        [data |-> data, timestamp |-> clock,
         vertical |-> IF key \in DOMAIN cache THEN cache[key].vertical
                      ELSE vertical])

saveToResearchCache(cache, platformName, data, vertical, clock) ==
    Put(cache, ToLowerCase(platformName),
        [data |-> data, timestamp |-> clock, vertical |-> vertical])

\* mutant: the vertical of the entry is not compared
getFromResearchCache_anyVertical(cache, platformName, vertical, clock) ==
    LET key == ToLowerCase(platformName) IN
    IF key \notin DOMAIN cache THEN <<>>
    ELSE IF clock - cache[key].timestamp > CACHE_EXPIRY_HOURS THEN <<>>
    ELSE IF cache[key].data.researchStatus = "error" THEN <<>>
    ELSE <<cache[key].data>>

\* <<data>> on a hit, <<>> for null
getFromResearchCache(cache, platformName, vertical, clock) ==
    LET key == ToLowerCase(platformName) IN
    IF key \notin DOMAIN cache THEN <<>>
    ELSE IF clock - cache[key].timestamp > CACHE_EXPIRY_HOURS THEN <<>>
    ELSE IF cache[key].vertical # vertical THEN <<>>
    ELSE IF cache[key].data.researchStatus = "error" THEN <<>>
    ELSE <<cache[key].data>>

getCachedPlatformNames(cache, vertical, clock) ==
    {k \in DOMAIN cache :
        /\ clock - cache[k].timestamp <= CACHE_EXPIRY_HOURS
        /\ cache[k].vertical = vertical
        /\ cache[k].data.researchStatus # "error"}

saveReviewToCache(cache, review, vertical, clock) ==
    Put(cache, ToLowerCase(review.platformName),
        [platformName |-> review.platformName, overview |-> review.overview,
         infosheet |-> review.infosheet, pros |-> review.pros,
         cons |-> review.cons, verdict |-> review.verdict,
         affiliateUrl |-> review.affiliateUrl,
         citations |-> review.citations,
         timestamp |-> clock, vertical |-> vertical])

getReviewFromCache(cache, platformName, vertical, clock) ==
    LET key == ToLowerCase(platformName) IN
    IF key \notin DOMAIN cache THEN <<>>
    ELSE IF clock - cache[key].timestamp > CACHE_EXPIRY_HOURS THEN <<>>
    ELSE IF cache[key].vertical # vertical THEN <<>>
    ELSE <<cache[key]>>

(***************************************************************************)
(* HTML is a list of tokens: paragraph tags, text and anchors.             *)
(* buildCitationAnchor and ensureInTextCitations (lines 386-413).          *)
(***************************************************************************)
POpen == [t |-> "<p>", href |-> <<>>, label |-> ""]
PClose == [t |-> "</p>", href |-> <<>>, label |-> ""]
TextTok == [t |-> "text", href |-> <<>>, label |-> ""]
Anchor(href, label) == [t |-> "<a>", href |-> href, label |-> label]

StartsWithHttp(url) ==
    url \in {"https://a.com/review", "https://www.a.com/licence",
             "https://b.com/"}

\* a sourceUrl is <<url>>; a Google search URL is <<prefix, query>>
hasRealUrl(citation) ==
    /\ Len(citation.sourceUrl) = 1
    /\ StartsWithHttp(citation.sourceUrl[1])

buildCitationAnchor(citation) ==
    Anchor(IF hasRealUrl(citation) THEN citation.sourceUrl
           ELSE citation.googleSearchUrl,
           citation.domain)

LinkCount(html) == Len(SelectSeq(html, LAMBDA tok : tok.t = "<a>"))

\* html.lastIndexOf('</p>'), 0 when there is none
RECURSIVE LastIndexOfPClose(_, _)
LastIndexOfPClose(html, k) ==
    IF k = 0 THEN 0
    ELSE IF html[k] = PClose THEN k ELSE LastIndexOfPClose(html, k - 1)

\* mutant: the anchors always go to the very end
ensureInTextCitations_append(html, citations, minCount) ==
    IF html = <<>> THEN html
    ELSE IF citations = <<>> THEN html
    ELSE IF LinkCount(html) >= minCount THEN html
    ELSE
        LET missing == minCount - LinkCount(html)
            needed == IF Len(citations) < missing THEN Len(citations)
                      ELSE missing
        IN html \o [i \in 1..needed |-> buildCitationAnchor(citations[i])]

ensureInTextCitations(html, citations, minCount) ==
    IF html = <<>> THEN html
    ELSE IF citations = <<>> THEN html
    ELSE IF LinkCount(html) >= minCount THEN html
    ELSE
        LET missing == minCount - LinkCount(html)
            needed == IF Len(citations) < missing THEN Len(citations)
                      ELSE missing
            anchors == [i \in 1..needed |-> buildCitationAnchor(citations[i])]
            last == LastIndexOfPClose(html, Len(html))
        IN IF last # 0
           THEN SubSeq(html, 1, last - 1) \o anchors
                    \o SubSeq(html, last, Len(html))
           ELSE html \o anchors

(***************************************************************************)
(* generatePlatformReview (lines 1236-1414) and its helpers                *)
(***************************************************************************)
\* the article configuration, reduced to what the pipeline branches on
Config(vertical, platforms, sections, targetSectionCount) ==
    [vertical |-> vertical, platforms |-> platforms,
     includeSections |-> sections,
     targetSectionCount |-> targetSectionCount]

AllSections ==
    [comparisonTable |-> TRUE, faqs |-> TRUE, platformRatings |-> TRUE,
     prosCons |-> TRUE, verdict |-> TRUE]

hasValidResearchData(research) ==
    LET info == research.infosheet
        hasLicense == info.license \notin {"", "Unknown", "N/A"}
        hasDeposit == info.minDeposit \notin {"", "Unknown", "N/A"}
        hasPayout == info.payoutSpeed \notin {"", "Unknown", "N/A"}
        hasCitations == Len(research.citations) > 0
    IN (hasLicense /\ hasDeposit) \/ (hasLicense /\ hasPayout) \/ hasCitations

hasValue(v) ==
    v # "" /\ ToLowerCase(v) \notin
                 {"unknown", "not publicly disclosed", "research failed"}

\* the English sentences of buildFallbackProsFromInfosheet, tagged by the
\* field they are built from
buildFallbackProsFromInfosheet(research) ==
    LET info == research.infosheet IN
    (IF hasValue(info.license) THEN <<"Licensed by <license>.">> ELSE <<>>)
    \o (IF Len(info.paymentMethods) > 0
        THEN <<"Supports multiple payment methods.">> ELSE <<>>)
    \o (IF Len(info.supportedCurrencies) > 0
        THEN <<"Supports several currencies.">> ELSE <<>>)
    \o (IF hasValue(info.payoutSpeed)
        THEN <<"Clear payout timeframe: <payoutSpeed>.">> ELSE <<>>)

NoDataOverview == <<POpen, TextTok, PClose, POpen, TextTok, PClose>>

PlaceholderReview(research, config, affiliateUrl) ==
    [platformName |-> research.name, overview |-> NoDataOverview,
     ratings |-> <<>>,
     pros |-> IF config.includeSections.prosCons
              THEN <<"Information pending manual research">> ELSE <<>>,
     cons |-> IF config.includeSections.prosCons
              THEN <<"Research data not available">> ELSE <<>>,
     verdict |-> IF config.includeSections.verdict THEN NoDataOverview
                 ELSE <<>>,
     infosheet |-> research.infosheet, citations |-> research.citations,
     affiliateUrl |-> affiliateUrl]

\* what the writing model may answer to a review prompt
ReviewJsonA ==
    [overview |-> <<POpen, TextTok, PClose>>,
     ratings |-> <<[category |-> "Security", score |-> 8]>>,
     pros |-> <<"Good bonus", "Fast support">>,
     cons |-> <<"Slow KYC", "Few games", "No app">>,
     verdict |-> <<POpen, TextTok, PClose>>]

ReviewJsonB ==
    [overview |-> <<POpen, TextTok,
                    Anchor(<<"https://b.com/">>, "b.com"), PClose>>,
     ratings |-> <<>>, pros |-> <<>>, cons |-> <<"Slow KYC">>,
     verdict |-> <<>>]

Max(a, b) == IF a > b THEN a ELSE b

\* mutant: the pros built from the infosheet come before the research pros
ReviewFromParsed_infosheetFirst(research, config, affiliateUrl, parsed) ==
    LET includeProsCons == config.includeSections.prosCons
        fallbackPros == research.pros
        fallbackProsFromFeatures ==
            SelectSeq(research.keyFeatures, LAMBDA f : f # "")
        safePros ==
            IF ~includeProsCons THEN <<>>
            ELSE IF Len(parsed.pros) > 0 THEN parsed.pros
            ELSE IF Len(buildFallbackProsFromInfosheet(research)) > 0
                 THEN buildFallbackProsFromInfosheet(research)
            ELSE IF Len(fallbackPros) > 0 THEN fallbackPros
            ELSE Slice(fallbackProsFromFeatures, 3)
        safeCons ==
            IF ~includeProsCons THEN <<>>
            ELSE IF Len(safePros) > Len(parsed.cons) THEN parsed.cons
            ELSE Slice(parsed.cons, Max(0, Len(safePros) - 1))
    IN [platformName |-> research.name,
        overview |-> ensureInTextCitations(parsed.overview,
                                           research.citations, 2),
        infosheet |-> research.infosheet,
        ratings |-> IF config.includeSections.platformRatings
                    THEN parsed.ratings ELSE <<>>,
        pros |-> safePros, cons |-> safeCons,
        verdict |-> IF config.includeSections.verdict
                    THEN ensureInTextCitations(parsed.verdict,
                                               research.citations, 1)
                    ELSE <<>>,
        affiliateUrl |-> affiliateUrl, citations |-> research.citations]

\* mutant: the cons are not truncated
ReviewFromParsed_noTruncation(research, config, affiliateUrl, parsed) ==
    LET includeProsCons == config.includeSections.prosCons
        fallbackPros == research.pros
        fallbackProsFromFeatures ==
            SelectSeq(research.keyFeatures, LAMBDA f : f # "")
        safePros ==
            IF ~includeProsCons THEN <<>>
            ELSE IF Len(parsed.pros) > 0 THEN parsed.pros
            ELSE IF Len(fallbackPros) > 0 THEN fallbackPros
            ELSE IF Len(fallbackProsFromFeatures) > 0
                 THEN Slice(fallbackProsFromFeatures, 3)
            ELSE buildFallbackProsFromInfosheet(research)
        safeCons ==
            IF ~includeProsCons THEN <<>>
            ELSE parsed.cons
    IN [platformName |-> research.name,
        overview |-> ensureInTextCitations(parsed.overview,
                                           research.citations, 2),
        infosheet |-> research.infosheet,
        ratings |-> IF config.includeSections.platformRatings
                    THEN parsed.ratings ELSE <<>>,
        pros |-> safePros, cons |-> safeCons,
        verdict |-> IF config.includeSections.verdict
                    THEN ensureInTextCitations(parsed.verdict,
                                               research.citations, 1)
                    ELSE <<>>,
        affiliateUrl |-> affiliateUrl, citations |-> research.citations]

ReviewFromParsed(research, config, affiliateUrl, parsed) ==
    LET includeProsCons == config.includeSections.prosCons
        fallbackPros == research.pros
        fallbackProsFromFeatures ==
            SelectSeq(research.keyFeatures, LAMBDA f : f # "")
        safePros ==
            IF ~includeProsCons THEN <<>>
            ELSE IF Len(parsed.pros) > 0 THEN parsed.pros
            ELSE IF Len(fallbackPros) > 0 THEN fallbackPros
            ELSE IF Len(fallbackProsFromFeatures) > 0
                 THEN Slice(fallbackProsFromFeatures, 3)
            ELSE buildFallbackProsFromInfosheet(research)
        safeCons ==
            IF ~includeProsCons THEN <<>>
            ELSE IF Len(safePros) > Len(parsed.cons) THEN parsed.cons
            ELSE Slice(parsed.cons, Max(0, Len(safePros) - 1))
    IN [platformName |-> research.name,
        overview |-> ensureInTextCitations(parsed.overview,
                                           research.citations, 2),
        infosheet |-> research.infosheet,
        ratings |-> IF config.includeSections.platformRatings
                    THEN parsed.ratings ELSE <<>>,
        pros |-> safePros, cons |-> safeCons,
        verdict |-> IF config.includeSections.verdict
                    THEN ensureInTextCitations(parsed.verdict,
                                               research.citations, 1)
                    ELSE <<>>,
        affiliateUrl |-> affiliateUrl, citations |-> research.citations]

\* the result of the call: the review, or the error it throws, with the
\* network calls and sleeps made
generatePlatformReview(research, config, affiliateUrl, net) ==
    IF ~hasValidResearchData(research)
    THEN [threw |-> FALSE, events |-> <<>>,
          review |-> <<PlaceholderReview(research, config, affiliateUrl)>>]
    ELSE
        LET r == withRetry(net, DefaultMaxRetries, DefaultBaseDelayMs) IN
        IF r.threw THEN [threw |-> TRUE, events |-> r.events, review |-> <<>>]
        ELSE IF parseJsonResponse(r.value) = <<>>
             THEN [threw |-> TRUE, events |-> r.events, review |-> <<>>]
             ELSE [threw |-> FALSE, events |-> r.events,
                   review |-> <<ReviewFromParsed(research, config,
                                    affiliateUrl,
                                    parseJsonResponse(r.value)[1])>>]

\* config.platforms.find(p => p.name === research.name)?.affiliateUrl
AffiliateUrlOf(config, name) ==
    LET found == SelectSeq(config.platforms, LAMBDA p : p.name = name) IN
    IF found = <<>> THEN Null ELSE found[1].affiliateUrl

(***************************************************************************)
(* The article generators.  Each one sends one prompt through withRetry    *)
(* with the default budget and parses the answer; the result is the value  *)
(* (or the error thrown) with the network calls and sleeps made.           *)
(***************************************************************************)
\* mutant: the answer is parsed inside the retried function, so that an
\* answer that does not parse counts as a failed attempt
requestJson_parseInside(net) ==
    LET Parsed(r) ==
            IF r.threw
            THEN [threw |-> TRUE, events |-> r.events, json |-> <<>>]
            ELSE [threw |-> FALSE, events |-> r.events,
                  json |-> parseJsonResponse(r.value)]
    IN Parsed(withRetry(
           [k \in 1..Len(net) |->
               IF net[k].ok /\ parseJsonResponse(net[k].value) = <<>>
               THEN Reject("Failed to fetch") ELSE net[k]],
           DefaultMaxRetries, DefaultBaseDelayMs))

requestJson(net) ==
    LET Parsed(r) ==
            IF r.threw
            THEN [threw |-> TRUE, events |-> r.events, json |-> <<>>]
            ELSE [threw |-> parseJsonResponse(r.value) = <<>>,
                  events |-> r.events,
                  json |-> parseJsonResponse(r.value)]
    IN Parsed(withRetry(net, DefaultMaxRetries, DefaultBaseDelayMs))

Returned(r, value) == [threw |-> FALSE, events |-> r.events, value |-> value]
Thrown(r) == [threw |-> TRUE, events |-> r.events, value |-> <<>>]

\* lines 1011-1058
generateIntroduction(config, platformQuickList, allCitations, net) ==
    LET r == requestJson(net) IN
    IF r.threw THEN Thrown(r)
    ELSE Returned(r, ensureInTextCitations(r.json[1].introduction,
                                           allCitations, 2))

WithShortDescription(p, html) ==
    [name |-> p.name, shortDescription |-> html]

\* lines 1060-1105
generatePlatformQuickList(platformResearch, allCitations, net) ==
    LET r == requestJson(net) IN
    IF r.threw THEN Thrown(r)
    ELSE LET list == r.json[1].platformQuickList IN
         Returned(r, [k \in 1..Len(list) |->
             WithShortDescription(list[k],
                 ensureInTextCitations(list[k].shortDescription,
                                       allCitations, 1))])

\* lines 1125-1234: the rows are the ones the model answers with
generateComparisonTable(platformResearch, config, net) ==
    LET r == requestJson(net) IN
    IF r.threw THEN Thrown(r) ELSE Returned(r, r.json[1].rows)

\* lines 1420-1476
generateBatchRatings(cachedReviews, config, net) ==
    LET r == requestJson(net) IN
    IF r.threw THEN Thrown(r) ELSE Returned(r, r.json[1].platformRatings)

CitationsOf(records) ==
    FlatSeq([k \in 1..Len(records) |-> records[k].citations])

\* lines 1591-1646
generateFAQs(platformResearch, config, net) ==
    LET faqCitations == deduplicateCitations(CitationsOf(platformResearch))
        r == requestJson(net)
    IN IF r.threw THEN Thrown(r)
       ELSE LET faqs == r.json[1].faqs IN
            Returned(r, [k \in 1..Len(faqs) |->
                [question |-> faqs[k].question,
                 answer |-> ensureInTextCitations(faqs[k].answer,
                                                  faqCitations, 1)]])

\* the slug clean-up of lines 1721-1725 on the slugs the model answers with
cleanSlug(slug) ==
    CASE slug = "Best Casinos!" -> "best-casinos"
      [] slug = "" -> "article"
      [] OTHER -> slug

\* lines 1661-1735
generateSeoMetadata(platformResearch, config, net) ==
    LET r == requestJson(net) IN
    IF r.threw THEN Thrown(r)
    ELSE Returned(r, [title |-> r.json[1].title,
                      metaDescription |-> r.json[1].metaDescription,
                      slug |-> cleanSlug(r.json[1].slug)])

\* EXISTING_SECTION_PATTERNS.some(pattern => lower.includes(pattern))
isExistingSection(heading) == heading \in {"FAQ", "Top Reviews"}

\* lines 1856-1919: the candidates are the competitor headings that name
\* no existing section and no platform, without repetitions
suggestAdditionalSections(competitorHeadings, targetCount, config, net) ==
    LET candidates ==
            UniqueSeq(SelectSeq(competitorHeadings,
                                LAMBDA h : ~isExistingSection(h)), {})
    IN IF candidates = <<>> \/ targetCount <= 0
       THEN [events |-> <<>>, value |-> <<>>]
       ELSE LET r == requestJson(net) IN
            IF r.threw
            THEN [events |-> r.events, value |-> Slice(candidates, targetCount)]
            ELSE [events |-> r.events,
                  value |-> Slice(r.json[1].sections, targetCount)]

defaultSectionSuggestions ==
    << "Payment Methods Guide", "Mobile Gaming Experience",
       "Bonus Terms Explained", "Security & Safety",
       "Customer Support Overview" >>

\* lines 1930-2015: the answer is HTML or plain text, which is wrapped in
\* a paragraph; a failed request gives the 'could not be generated' text
generateAdditionalSectionWithKeywords(sectionTitle, config, net) ==
    LET r == withRetry(net, DefaultMaxRetries, DefaultBaseDelayMs) IN
    IF r.threw
    THEN [events |-> r.events,
          value |-> [title |-> sectionTitle,
                     content |-> <<POpen, TextTok, PClose>>,
                     generated |-> FALSE]]
    ELSE [events |-> r.events,
          value |-> [title |-> sectionTitle,
                     content |-> IF r.value.html[1] = POpen THEN r.value.html
                                 ELSE <<POpen>> \o r.value.html \o <<PClose>>,
                     generated |-> TRUE]]

\* A cache object lists its keys in insertion order; every run of this
\* model inserts them in the order of KeyOrder.
KeyOrder == <<"acme", "bravo", "charlie">>

\* mutant: the age of an entry is not looked at
getCachedReviews_ignoreExpiry(cache, vertical, clock) ==
    LET keys == SelectSeq(KeyOrder, LAMBDA k :
                    k \in DOMAIN cache /\ cache[k].vertical = vertical)
    IN [i \in 1..Len(keys) |-> cache[keys[i]]]

\* Object.values of the review cache, filtered as in getCachedReviews
\* (lines 883-890)
getCachedReviews(cache, vertical, clock) ==
    LET keys == SelectSeq(KeyOrder, LAMBDA k :
                    /\ k \in DOMAIN cache
                    /\ clock - cache[k].timestamp <= CACHE_EXPIRY_HOURS
                    /\ cache[k].vertical = vertical)
    IN [i \in 1..Len(keys) |-> cache[keys[i]]]

(***************************************************************************)
(* What the network may do during one pipeline call                        *)
(***************************************************************************)
E503 == "API error: 503 - Service Unavailable"
E401 == "API error: 401 - invalid_api_key"

\* the message of a chat completion: Sonar adds the URLs it cites, one of
\* them without a scheme
TongyiMsg(text) == [content |-> text, citations |-> <<>>]
SonarMsg(text) == [content |-> text, citations |-> <<"https://b.com/", "B.com">>]

ResearchNets(researchModel) ==
    LET Msg(text) == IF researchModel = PERPLEXITY_SONAR THEN SonarMsg(text)
                     ELSE TongyiMsg(text)
    IN { [first |-> f, second |-> g] :
            f \in { <<Resolve(Msg(TextFull))>>, <<Resolve(Msg(TextSparse))>>,
                    <<Resolve(Msg(TextGarbage))>>, <<Reject(E401)>>,
                    <<Reject(E503), Resolve(Msg(TextFull))>>,
                    <<Reject(E503)>> },
            g \in { <<Resolve(Msg(TextSparse))>>, <<Reject(E503)>> } }

TextReviewA == [json |-> <<ReviewJsonA>>]
TextReviewB == [json |-> <<ReviewJsonB>>]

ReviewNets ==
    { <<Resolve(TextReviewA)>>, <<Resolve(TextReviewB)>>,
      <<Resolve(TextGarbage)>>, <<Reject(E401)>> }

(***************************************************************************)
(* Spec: a session of researchAllPlatforms (lines 966-1007) and            *)
(* generateReviewsOnly (lines 2147-2192) runs                              *)
(***************************************************************************)
\* what the user does in one session: the pipeline runs, in order
ResearchAll(names, vertical, researchModel) ==
    [kind |-> "researchAll", names |-> names, vertical |-> vertical,
     model |-> researchModel]
ReviewsOnly(names, vertical) ==
    [kind |-> "reviewsOnly", names |-> names, vertical |-> vertical,
     model |-> TONGYI_DEEP_RESEARCH]

Plans ==
    { << ResearchAll(<<"Acme", "Bravo">>, "gambling", TONGYI_DEEP_RESEARCH),
         ResearchAll(<<"Acme", "Bravo">>, "gambling", TONGYI_DEEP_RESEARCH) >>,
      << ResearchAll(<<"Acme", "ACME">>, "crypto", PERPLEXITY_SONAR),
         ResearchAll(<<"Acme", "ACME">>, "crypto", PERPLEXITY_SONAR) >>,
      << ReviewsOnly(<<"Acme">>, "gambling"),
         ReviewsOnly(<<"Acme">>, "crypto") >>,
      << ReviewsOnly(<<"Acme", "Bravo">>, "gambling"),
         ResearchAll(<<"ACME", "Bravo">>, "gambling", TONGYI_DEEP_RESEARCH) >>,
      << ReviewsOnly(<<"Acme", "Bravo">>, "gambling"),
         ReviewsOnly(<<"Acme", "Bravo">>, "gambling") >> }

PlatformInputs(names) ==
    [i \in 1..Len(names) |-> [name |-> names[i], affiliateUrl |-> "aff"]]

IdleCall(plan) ==
    [pc |-> "idle", kind |-> "none", names |-> <<>>, vertical |-> "gambling",
     model |-> TONGYI_DEEP_RESEARCH, i |-> 1, completed |-> 0,
     results |-> <<>>, progress |-> <<>>, reqLog |-> <<>>, events |-> <<>>,
     pace |-> <<>>, reviews |-> <<>>, plan |-> plan]

EmptyCache == [k \in {} |-> 0]

IdleRt == [phase |-> "off"]
IdleCz == [phase |-> "off"]
IdleJob == [pc |-> "off"]
IdleUnit == [phase |-> "off"]

Init ==
    /\ now = 0
    /\ researchCache = EmptyCache
    /\ reviewCache = EmptyCache
    /\ \E plan \in Plans : call = IdleCall(plan)
    /\ history = <<>>
    /\ unit = IdleUnit
    /\ rt = IdleRt
    /\ cz = IdleCz
    /\ job = IdleJob

\* what the loop of researchAllPlatforms did, in order: a cache hit, a
\* call of researchPlatform, a sleep between requests
HitMark == [type |-> "hit", ms |-> 0]
ResearchMark == [type |-> "research", ms |-> 0]

\* mutant: the delay does not depend on the research model
DELAY_BETWEEN_REQUESTS_MS_fixed(researchModel) == 3000

DELAY_BETWEEN_REQUESTS_MS(researchModel) ==
    IF researchModel = PERPLEXITY_SONAR THEN 1500 ELSE 3000

\* a day passes while the page is idle or a research request is in flight
Tick ==
    /\ call.pc \in {"idle", "researching"}
    /\ now + TickHours <= MaxNow
    /\ now' = now + TickHours
    /\ UNCHANGED <<researchCache, reviewCache, call, history, rt, cz, job, unit>>

\* the next run of the session plan begins
StartResearchAll ==
    /\ call.pc = "idle"
    /\ call.plan # <<>>
    /\ Head(call.plan).kind = "researchAll"
    /\ call' = [IdleCall(Tail(call.plan)) EXCEPT
                   !.pc = "loop", !.kind = "researchAll",
                   !.names = Head(call.plan).names,
                   !.vertical = Head(call.plan).vertical,
                   !.model = Head(call.plan).model]
    /\ UNCHANGED <<now, researchCache, reviewCache, history, rt, cz, job, unit>>

\* generateReviewsOnly begins with researchAllPlatforms under the default
\* research model (lines 2159-2165)
StartReviewsOnly ==
    /\ call.pc = "idle"
    /\ call.plan # <<>>
    /\ Head(call.plan).kind = "reviewsOnly"
    /\ call' = [IdleCall(Tail(call.plan)) EXCEPT
                   !.pc = "loop", !.kind = "reviewsOnly",
                   !.names = Head(call.plan).names,
                   !.vertical = Head(call.plan).vertical]
    /\ UNCHANGED <<now, researchCache, reviewCache, history, rt, cz, job, unit>>

\* mutant: the callback is given the count before it is incremented
ProgressEntry_stale(completed, total, name, fromCache) ==
    [completed |-> completed - 1, total |-> total, platformName |-> name,
     fromCache |-> fromCache]

\* the arguments of one onProgress call (lines 987 and 997)
ProgressEntry(completed, total, name, fromCache) ==
    [completed |-> completed, total |-> total, platformName |-> name,
     fromCache |-> fromCache]

\* loop body, cache hit (lines 981-987)
RapHit ==
    /\ call.pc = "loop"
    /\ call.i <= Len(call.names)
    /\ LET name == call.names[call.i]
           cachedResult == getFromResearchCache(researchCache, name,
                                                call.vertical, now)
       IN /\ cachedResult # <<>>
          /\ call' = [call EXCEPT
                !.results = Append(@, cachedResult[1]),
                !.completed = @ + 1,
                !.progress = Append(@, ProgressEntry(call.completed + 1,
                                 Len(call.names), name, TRUE)),
                !.reqLog = Append(@, 0),
                !.events = <<>>,
                !.pace = Append(@, HitMark),
                !.i = @ + 1]
    /\ UNCHANGED <<now, researchCache, reviewCache, history, rt, cz, job, unit>>

\* loop body, cache miss: researchPlatform is called and awaited (line 990)
RapMiss ==
    /\ call.pc = "loop"
    /\ call.i <= Len(call.names)
    /\ getFromResearchCache(researchCache, call.names[call.i],
                            call.vertical, now) = <<>>
    /\ call' = [call EXCEPT !.pc = "researching", !.events = <<>>]
    /\ UNCHANGED <<now, researchCache, reviewCache, history, rt, cz, job, unit>>

\* researchPlatform resolves; save, push, report, then sleep unless this was
\* the last name (lines 990-1002)
RapResearched ==
    /\ call.pc = "researching"
    /\ \E net \in ResearchNets(call.model) :
         LET name == call.names[call.i]
             r == researchPlatform(name, call.vertical, call.model, net, now)
             total == Len(call.names)
             more == call.completed + 1 < total
         IN /\ researchCache' = saveToResearchCache(researchCache, name,
                                    r.record, call.vertical, now)
            /\ call' = [call EXCEPT
                  !.results = Append(@, r.record),
                  !.completed = @ + 1,
                  !.progress = Append(@, ProgressEntry(call.completed + 1,
                                   total, name, FALSE)),
                  !.reqLog = Append(@, CountType(r.events, "call")),
                  !.events = IF more
                             THEN Append(r.events, SleepEvent(
                                      DELAY_BETWEEN_REQUESTS_MS(call.model)))
                             ELSE r.events,
                  !.pace = IF more
                           THEN @ \o <<ResearchMark, SleepEvent(
                                    DELAY_BETWEEN_REQUESTS_MS(call.model))>>
                           ELSE Append(@, ResearchMark),
                  !.pc = IF more THEN "sleeping" ELSE "loop",
                  !.i = @ + 1]
    /\ UNCHANGED <<now, reviewCache, history, rt, cz, job, unit>>

RapSleepDone ==
    /\ call.pc = "sleeping"
    /\ call' = [call EXCEPT !.pc = "loop"]
    /\ UNCHANGED <<now, researchCache, reviewCache, history, rt, cz, job, unit>>

\* researchAllPlatforms returns its results (line 1006)
RapReturn ==
    /\ call.pc = "loop"
    /\ call.i > Len(call.names)
    /\ call' = [call EXCEPT
          !.pc = IF call.kind = "reviewsOnly" THEN "reviews" ELSE "done",
          !.i = 1, !.events = <<>>]
    /\ UNCHANGED <<now, researchCache, reviewCache, history, rt, cz, job, unit>>

ReviewsOnlyConfig ==
    Config(call.vertical, PlatformInputs(call.names), AllSections, 5)

\* mutant: the reviews are not written to the cache inside the loop
RevStep_noSave ==
    /\ call.pc = "reviews"
    /\ call.i <= Len(call.results)
    /\ \E net \in ReviewNets :
         LET research == call.results[call.i]
             g == generatePlatformReview(research, ReviewsOnlyConfig,
                      AffiliateUrlOf(ReviewsOnlyConfig, research.name), net)
         IN IF g.threw
            THEN call' = [call EXCEPT !.pc = "failed", !.events = g.events]
            ELSE call' = [call EXCEPT
                        !.reviews = Append(@, g.review[1]),
                        !.events = g.events, !.i = @ + 1]
    /\ UNCHANGED <<now, researchCache, reviewCache, history, rt, cz, job, unit>>

\* one turn of the review loop of generateReviewsOnly (lines 2172-2186);
\* an error thrown by generatePlatformReview ends the run
RevStep ==
    /\ call.pc = "reviews"
    /\ call.i <= Len(call.results)
    /\ \E net \in ReviewNets :
         LET research == call.results[call.i]
             g == generatePlatformReview(research, ReviewsOnlyConfig,
                      AffiliateUrlOf(ReviewsOnlyConfig, research.name), net)
         IN IF g.threw
            THEN /\ call' = [call EXCEPT !.pc = "failed",
                                         !.events = g.events]
                 /\ UNCHANGED reviewCache
            ELSE /\ call' = [call EXCEPT
                        !.reviews = Append(@, g.review[1]),
                        !.events = g.events, !.i = @ + 1]
                 /\ reviewCache' = saveReviewToCache(reviewCache,
                                       g.review[1], call.vertical, now)
    /\ UNCHANGED <<now, researchCache, history, rt, cz, job, unit>>

RevReturn ==
    /\ call.pc = "reviews"
    /\ call.i > Len(call.results)
    /\ call' = [call EXCEPT !.pc = "done", !.events = <<>>]
    /\ UNCHANGED <<now, researchCache, reviewCache, history, rt, cz, job, unit>>

\* the oldest write time among the entries of the listed names
OldestEntry(cache, names, clock) ==
    LET keys == {ToLowerCase(names[i]) : i \in 1..Len(names)} \cap DOMAIN cache
        stamps == {cache[k].timestamp : k \in keys} \cup {clock}
    IN CHOOSE t \in stamps : \A u \in stamps : t <= u

\* the caller takes the outcome and the page is idle again
Finish ==
    /\ call.pc \in {"done", "failed"}
    /\ history' = Append(history,
          [kind |-> call.kind, names |-> call.names,
           vertical |-> call.vertical, results |-> call.results,
           reviews |-> call.reviews, failed |-> call.pc = "failed",
           oldest |-> OldestEntry(researchCache, call.names, now)])
    /\ call' = IdleCall(call.plan)
    /\ UNCHANGED <<now, researchCache, reviewCache, rt, cz, job, unit>>

Next ==
    \/ Tick
    \/ StartResearchAll
    \/ StartReviewsOnly
    \/ RapHit
    \/ RapMiss
    \/ RapResearched
    \/ RapSleepDone
    \/ RapReturn
    \/ RevStep
    \/ RevReturn
    \/ Finish

Spec == Init /\ [][Next]_vars

(***************************************************************************)
(* Properties of Spec                                                      *)
(***************************************************************************)
\* researchAllPlatforms has returned to its caller
ResearchReturned == call.pc \in {"done", "reviews", "failed"}

LastCall == history[Len(history)]

\* this call repeats the previous one, and no entry of the listed names
\* that the previous call left behind is older than the expiry window
RepeatedCall ==
    /\ ResearchReturned
    /\ history # <<>>
    /\ LastCall.names = call.names
    /\ LastCall.vertical = call.vertical
    /\ now - LastCall.oldest <= CACHE_EXPIRY_HOURS

ProbeNames == {"Acme", "ACME", "Bravo", "Charlie"}

\* C2: getFromResearchCache returns the stored record exactly when an entry
\* exists under the lower-cased name, is at most 24 hours old, has the
\* requested vertical and is not an error record, and null otherwise;
\* getReviewFromCache applies the first three conditions.
C2_CacheReads ==
    \A name \in ProbeNames, vertical \in Verticals :
        LET key == ToLowerCase(name) IN
        /\ getFromResearchCache(researchCache, name, vertical, now) =
              IF /\ key \in DOMAIN researchCache
                 /\ now - researchCache[key].timestamp <= 24
                 /\ researchCache[key].vertical = vertical
                 /\ researchCache[key].data.researchStatus # "error"
              THEN <<researchCache[key].data>> ELSE <<>>
        /\ getReviewFromCache(reviewCache, name, vertical, now) =
              IF /\ key \in DOMAIN reviewCache
                 /\ now - reviewCache[key].timestamp <= 24
                 /\ reviewCache[key].vertical = vertical
              THEN <<reviewCache[key]>> ELSE <<>>

\* an entry that is present but expired next to one that is served under
\* its own vertical only
C2_Witness ==
    /\ \E k \in DOMAIN researchCache :
          /\ researchCache[k].data.researchStatus = "completed"
          /\ now - researchCache[k].timestamp > 24
    /\ \E k \in DOMAIN researchCache :
          /\ getFromResearchCache(researchCache, k, "gambling", now) # <<>>
          /\ getFromResearchCache(researchCache, k, "crypto", now) = <<>>
    /\ \E k \in DOMAIN reviewCache :
          getReviewFromCache(reviewCache, k, "gambling", now) # <<>>

FailureSentinel == "Research failed"

IsDegraded(record) ==
    /\ record.researchStatus = "error"
    /\ record.citations = <<>>
    /\ \A f \in {"license", "country", "company", "yearEstablished",
                 "minDeposit", "payoutSpeed"} :
          record.infosheet[f] = FailureSentinel

\* C3: researchPlatform always returns a record: when a request fails after
\* its retries or the final response does not parse, the record is the
\* degraded one (status 'error', no citations, failure sentinels); so
\* researchAllPlatforms returns one record per name and a failed platform
\* is followed by the research of the remaining ones.
C3_NeverThrows ==
    /\ \A i \in 1..Len(call.results) :
          \/ call.results[i].researchStatus = "completed"
          \/ IsDegraded(call.results[i])
    /\ ResearchReturned => Len(call.results) = Len(call.names)
    /\ call.pc = "failed" => call.kind = "reviewsOnly"
    /\ call.pc = "researching" =>
          \A net \in ResearchNets(call.model) :
             LET m == call.model
                 r == researchPlatform(call.names[call.i], call.vertical, m,
                                       net, now)
                 base == IF m = PERPLEXITY_SONAR THEN SonarBaseDelayMs
                         ELSE TongyiBaseDelayMs
                 r1 == withRetry(net.first, ResearchMaxRetries, base)
                 verify == m # PERPLEXITY_SONAR /\ ~r1.threw
                           /\ ~hasGoodData(r1.value.content)
                 r2 == withRetry(net.second, ResearchMaxRetries, base)
                 failed == \/ r1.threw
                           \/ verify /\ r2.threw
                           \/ verify /\ ~r2.threw
                              /\ parseJsonResponse(r2.value.content) = <<>>
                           \/ ~verify /\ ~r1.threw
                              /\ parseJsonResponse(r1.value.content) = <<>>
             IN IF failed THEN IsDegraded(r.record)
                ELSE r.record.researchStatus = "completed"

C3_Witness ==
    /\ ResearchReturned
    /\ Len(call.results) = 2
    /\ IsDegraded(call.results[1])
    /\ call.reqLog[1] = ResearchMaxRetries + 1
    /\ call.results[2].researchStatus = "completed"
    /\ call.reqLog[2] > 0

\* C6 (as claimed): researchAllPlatforms returns one record per input name,
\* in input order, and the i-th record carries the i-th input name.
C6_Claimed ==
    ResearchReturned =>
        /\ Len(call.results) = Len(call.names)
        /\ \A i \in 1..Len(call.names) :
              call.results[i].name = call.names[i]

TwoVerticals ==
    /\ call.pc = "idle"
    /\ Len(history) >= 2
    /\ LET a == history[Len(history) - 1]
           b == history[Len(history)]
       IN /\ a.names = <<"Acme">> /\ b.names = <<"Acme">>
          /\ a.vertical # b.vertical
          /\ a.results[1].researchStatus = "completed"
          /\ b.results[1].researchStatus = "completed"
          /\ Len(a.reviews) = 1 /\ Len(b.reviews) = 1
          /\ now - a.oldest <= CACHE_EXPIRY_HOURS

ReviewsFailed == call.kind = "reviewsOnly" /\ call.pc = "failed"

\* the platforms 1..k-1 of the failed run whose key no later one of them
\* shares
DonePlatforms ==
    {j \in 1..Len(call.reviews) :
        \A j2 \in (j + 1)..Len(call.reviews) :
            ToLowerCase(call.results[j2].name)
                # ToLowerCase(call.results[j].name)}

AttemptOutcomes == {Resolve("value")} \cup {Reject(m) : m \in ErrorMessages}

RECURSIVE SeqsUpTo(_, _)
SeqsUpTo(S, n) ==
    IF n = 0 THEN {<<>>}
    ELSE LET shorter == SeqsUpTo(S, n - 1) IN
         shorter \cup {Append(q, x) : q \in shorter, x \in S}

Scripts == SeqsUpTo(AttemptOutcomes, MaxScriptLen) \ {<<>>}

NoOutcome == [threw |-> FALSE, value |-> Null, error |-> "", events |-> <<>>]

InitRetry ==
    /\ now = 0
    /\ researchCache = EmptyCache
    /\ reviewCache = EmptyCache
    /\ call = IdleCall(<<>>)
    /\ history = <<>>
    /\ unit = IdleUnit
    /\ cz = IdleCz
    /\ job = IdleJob
    /\ \E script \in Scripts,
          maxRetries \in (0..MaxRetriesTried) \cup {DefaultMaxRetries},
          baseDelayMs \in {TongyiBaseDelayMs, SonarBaseDelayMs} :
         rt = [phase |-> "ready", script |-> script,
               maxRetries |-> maxRetries, baseDelayMs |-> baseDelayMs,
               out |-> NoOutcome]

RunWithRetry ==
    /\ rt.phase = "ready"
    /\ rt' = [rt EXCEPT !.phase = "done",
                        !.out = withRetry(rt.script, rt.maxRetries,
                                          rt.baseDelayMs)]
    /\ UNCHANGED <<now, researchCache, reviewCache, call, history, cz, job, unit>>

NextRetry == RunWithRetry

SpecRetry == InitRetry /\ [][NextRetry]_vars

TransientMessages ==
    { "API error: 503 - Service Unavailable", "API error: 529 - Overloaded",
      "API error: 429 - Rate limit exceeded", "Failed to fetch" }

\* the attempts at which the run must stop: a success or a fatal error
Stops(script, maxRetries) ==
    {k \in 1..(maxRetries + 1) :
        \/ Answer(script, k).ok
        \/ Answer(script, k).message \notin TransientMessages}

\* C4: withRetry invokes the operation at most maxRetries + 1 times, with
\* exactly one sleep before each retry; a transient error is retried until
\* a success or until maxRetries retries are used up, and then the last
\* error is thrown; a non-transient error is thrown at once, with no sleep
\* and no further invocation.
C4_RetryBudget ==
    rt.phase = "done" =>
        LET ev == rt.out.events
            calls == CountType(ev, "call")
            stops == Stops(rt.script, rt.maxRetries)
            last == IF stops = {} THEN rt.maxRetries + 1
                    ELSE CHOOSE k \in stops : \A j \in stops : k <= j
        IN /\ calls <= rt.maxRetries + 1
           /\ calls = last
           /\ Len(ev) = 2 * calls - 1
           /\ \A i \in 1..Len(ev) :
                 ev[i].type = IF i % 2 = 1 THEN "call" ELSE "sleep"
           /\ IF Answer(rt.script, last).ok
              THEN ~rt.out.threw /\ rt.out.value = Answer(rt.script, last).value
              ELSE rt.out.threw
                   /\ rt.out.error = Answer(rt.script, last).message
           /\ Answer(rt.script, 1).message = E401 =>
                 rt.out.threw /\ ev = <<CallEvent>>

\* two retries of a 503 are used up and the third failure is thrown
C4_Witness ==
    /\ rt.phase = "done"
    /\ rt.maxRetries = 2
    /\ rt.script = <<Reject(E503), Reject("API error: 529 - Overloaded"),
                     Reject(E503)>>
    /\ CountType(rt.out.events, "call") = 3
    /\ CountType(rt.out.events, "sleep") = 2
    /\ rt.out.threw

OverloadMessages ==
    { "API error: 503 - Service Unavailable", "API error: 529 - Overloaded" }

\* C20: the delay slept after failed attempt number a (counted from 0) is
\* min(baseDelayMs * m^a, 60000) ms, with m = 5/2 when the error message
\* contains '503' or 'overloaded' and m = 2 for every other transient
\* error; no sleep exceeds 60 seconds.
C20_Backoff ==
    rt.phase = "done" =>
        \A a \in 0..(CountType(rt.out.events, "sleep") - 1) :
            LET slept == rt.out.events[2 * a + 2]
                message == Answer(rt.script, a + 1).message
                exact == IF message \in OverloadMessages
                         THEN rt.baseDelayMs * Pow(5, a)
                         ELSE rt.baseDelayMs * Pow(2, a) * Pow(2, a)
                cap == 60000 * Pow(2, a)
            IN /\ slept.type = "sleep"
               /\ slept.ms * Pow(2, a) = IF exact < cap THEN exact ELSE cap
               /\ slept.ms <= 60000

\* six retries of a 503 from a base of 5 s: the delays grow by 2.5 and the
\* fourth and later ones are capped; the seventh failure is thrown
C20_Witness ==
    /\ rt.phase = "done"
    /\ rt.script = <<Reject(E503)>>
    /\ rt.maxRetries = DefaultMaxRetries
    /\ rt.baseDelayMs = TongyiBaseDelayMs
    /\ rt.out.threw
    /\ rt.out.events[2] = SleepEvent(5000)
    /\ rt.out.events[4] = SleepEvent(12500)
    /\ rt.out.events[6] = SleepEvent(31250)
    /\ rt.out.events[8] = SleepEvent(60000)
    /\ rt.out.events[12] = SleepEvent(60000)

(***************************************************************************)
(* SpecCite: deduplicateCitations on bounded citation lists                *)
(***************************************************************************)
Cite(domain, title) ==
    [title |-> title, sourceUrl |-> <<title>>,
     googleSearchUrl |-> buildGoogleSearchUrl(title), domain |-> domain]

CitationPool ==
    { Cite("a.com", "https://a.com/review"),
      Cite("A.COM", "A.COM"),
      Cite("a.com", "https://www.a.com/licence"),
      Cite("b.com", "https://b.com/"),
      Cite("B.com", "B.com") }

InitCite ==
    /\ now = 0
    /\ researchCache = EmptyCache
    /\ reviewCache = EmptyCache
    /\ call = IdleCall(<<>>)
    /\ history = <<>>
    /\ unit = IdleUnit
    /\ rt = IdleRt
    /\ job = IdleJob
    /\ \E input \in SeqsUpTo(CitationPool, MaxCiteLen) :
         cz = [phase |-> "ready", input |-> input, out |-> <<>>,
               again |-> <<>>]

RunDedup ==
    /\ cz.phase = "ready"
    /\ cz' = [cz EXCEPT !.phase = "done",
                        !.out = deduplicateCitations(cz.input),
                        !.again = deduplicateCitations(
                                      deduplicateCitations(cz.input))]
    /\ UNCHANGED <<now, researchCache, reviewCache, call, history, rt, job, unit>>

NextCite == RunDedup

SpecCite == InitCite /\ [][NextCite]_vars

SameDomain(c, d) == ToLowerCase(c.domain) = ToLowerCase(d.domain)

\* the positions of the input that hold the first citation of their domain
FirstPositions(input) ==
    {i \in 1..Len(input) : \A j \in 1..(i - 1) : ~SameDomain(input[j], input[i])}

\* C9: deduplicateCitations keeps, for each lower-cased domain, exactly the
\* first citation in input order and drops the later ones whatever their
\* title: the output is the subsequence of first occurrences, holds no two
\* citations of one domain, and deduplicating it again changes nothing.
C9_Dedup ==
    cz.phase = "done" =>
        LET first == FirstPositions(cz.input)
            pos(k) == CHOOSE i \in first :
                         Cardinality({j \in first : j < i}) = k - 1
        IN /\ Len(cz.out) = Cardinality(first)
           /\ \A k \in 1..Len(cz.out) : cz.out[k] = cz.input[pos(k)]
           /\ \A k, l \in 1..Len(cz.out) :
                 SameDomain(cz.out[k], cz.out[l]) => k = l
           /\ cz.again = cz.out

\* the example of the specification: a.com, A.COM, b.com
C9_Witness ==
    /\ cz.phase = "done"
    /\ cz.input = << Cite("a.com", "https://a.com/review"),
                     Cite("A.COM", "A.COM"),
                     Cite("b.com", "https://b.com/") >>
    /\ cz.out = << Cite("a.com", "https://a.com/review"),
                   Cite("b.com", "https://b.com/") >>


(***************************************************************************)
(* SpecArticle: generateFullArticle (lines 2019-2140) on the records of a  *)
(* research run, and assembleArticleFromCache (lines 1482-1589) on the     *)
(* caches the earlier runs left behind                                     *)
(***************************************************************************)
\* the research runs the sessions start from: the names, the research
\* model and what the network did for each name
GoodNet(researchModel) ==
    [first |-> <<Resolve(IF researchModel = PERPLEXITY_SONAR
                         THEN SonarMsg(TextFull) ELSE TongyiMsg(TextFull))>>,
     second |-> <<Reject(E503)>>]
BadNet == [first |-> <<Reject(E401)>>, second |-> <<Reject(E503)>>]

ResearchRuns ==
    { [names |-> <<"Acme", "Bravo", "Charlie">>,
       model |-> TONGYI_DEEP_RESEARCH,
       nets |-> <<GoodNet(TONGYI_DEEP_RESEARCH), GoodNet(TONGYI_DEEP_RESEARCH),
                  GoodNet(TONGYI_DEEP_RESEARCH)>>],
      [names |-> <<"Acme", "Bravo", "Charlie">>,
       model |-> PERPLEXITY_SONAR,
       nets |-> <<GoodNet(PERPLEXITY_SONAR), GoodNet(PERPLEXITY_SONAR),
                  GoodNet(PERPLEXITY_SONAR)>>],
      [names |-> <<"Acme", "Bravo", "Charlie">>,
       model |-> TONGYI_DEEP_RESEARCH,
       nets |-> <<GoodNet(TONGYI_DEEP_RESEARCH), BadNet,
                  GoodNet(TONGYI_DEEP_RESEARCH)>>],
      [names |-> <<"Acme", "Bravo">>,
       model |-> PERPLEXITY_SONAR,
       nets |-> <<GoodNet(PERPLEXITY_SONAR), GoodNet(PERPLEXITY_SONAR)>>] }

\* the article runs of a session, in order
ArticlePlan == <<"full", "assemble">>

\* the research cache after researchAllPlatforms has researched the first
\* k records (all misses: the names differ and the cache was empty)
RECURSIVE ResearchedCache(_, _, _, _)
ResearchedCache(records, k, vertical, clock) ==
    IF k = 0 THEN EmptyCache
    ELSE saveToResearchCache(ResearchedCache(records, k - 1, vertical, clock),
                             records[k].name, records[k], vertical, clock)

NoOptionalSections ==
    [comparisonTable |-> FALSE, faqs |-> FALSE, platformRatings |-> FALSE,
     prosCons |-> TRUE, verdict |-> TRUE]

NamesOf(records) == [k \in 1..Len(records) |-> records[k].name]

IdleArticleJob(research, vertical, plan) ==
    [pc |-> "idle", kind |-> "none", plan |-> plan, research |-> research,
     vertical |-> vertical,
     config |-> Config(vertical, PlatformInputs(NamesOf(research)),
                       AllSections, 5),
     competitorHeadings |-> <<>>, i |-> 1, allCitations |-> <<>>,
     platformResearch |-> <<>>, cachedReviews |-> <<>>,
     batchRatings |-> <<>>, platformQuickList |-> <<>>, intro |-> <<>>,
     comparisonTable |-> <<>>, platformReviews |-> <<>>,
     additionalSections |-> <<>>, faqs |-> <<>>, seoMetadata |-> <<>>,
     calls |-> <<>>, warnings |-> <<>>, outcome |-> "none"]

\* the fields of a run, as they are when the function is entered
NewRun(j, kind, config, competitorHeadings) ==
    [IdleArticleJob(j.research, j.vertical, Tail(j.plan)) EXCEPT
        !.kind = kind, !.config = config,
        !.competitorHeadings = competitorHeadings]

InitArticle ==
    /\ now = 0
    /\ reviewCache = EmptyCache
    /\ call = IdleCall(<<>>)
    /\ history = <<>>
    /\ unit = IdleUnit
    /\ rt = IdleRt
    /\ cz = IdleCz
    /\ \E run \in ResearchRuns, vertical \in Verticals :
       \E research \in
             { [k \in 1..Len(run.names) |->
                   researchPlatform(run.names[k], vertical, run.model,
                                    run.nets[k], 0).record] \o <<>> } :
          /\ researchCache =
                 ResearchedCache(research, Len(research), vertical, 0)
          /\ job = IdleArticleJob(research, vertical, ArticlePlan)

ArticleTick ==
    /\ job.pc \in {"idle", "reviews"}
    /\ now < MaxNow
    /\ now' = now + TickHours
    /\ UNCHANGED <<researchCache, reviewCache, call, history, rt, cz, job, unit>>

\* what the models may answer to the prompts of the generators
TextQuickList(names) ==
    [json |-> <<[platformQuickList |->
        [k \in 1..Len(names) |->
            [name |-> names[k], shortDescription |-> <<TextTok>>]]]>>]
TextIntro == [json |-> <<[introduction |-> <<POpen, TextTok, PClose>>]>>]
\* the rating of a row is the model's text; 5 stars stands for the five
\* star characters
TextTable(names) ==
    [json |-> <<[rows |-> [k \in 1..Len(names) |->
                    [platformName |-> names[k], rating |-> "5 stars"]]]>>]
\* every platform gets a score of its own
TextRatings(names) ==
    [json |-> <<[platformRatings |-> [k \in 1..Len(names) |->
        [platformName |-> names[k],
         ratings |-> <<[category |-> "Security", score |-> 6 + k]>>]]]>>]
TextFaqs ==
    [json |-> <<[faqs |-> <<[question |-> "Is it licensed?",
                             answer |-> <<POpen, TextTok, PClose>>]>>]>>]
TextSeo ==
    [json |-> <<[title |-> "Best Casinos", metaDescription |-> "Reviews",
                 slug |-> "Best Casinos!"]>>]
TextSections == [json |-> <<[sections |-> <<"Payment Methods">>]>>]

Answers(text) == { <<Resolve(text)>>, <<Reject(E401)>> }
AnswersOrGarbage(text) == { <<Resolve(text)>>, <<Resolve(TextGarbage)>> }

\* an answer that lists one platform fewer than it was asked about
QuickListAnswers(names) ==
    AnswersOrGarbage(TextQuickList(names))
        \cup { <<Resolve(TextQuickList(Slice(names, Len(names) - 1)))>> }
TableAnswers(names) ==
    AnswersOrGarbage(TextTable(names))
        \cup { <<Resolve(TextTable(Slice(names, Len(names) - 1)))>> }
\* an answer that spells the first platform in capitals and leaves out
\* the last one
RatingsAnswers(names) ==
    Answers(TextRatings(names))
        \cup { <<Resolve(TextRatings(
                    [k \in 1..(Len(names) - 1) |->
                        IF names[k] = "Acme" THEN "ACME" ELSE names[k]]))>> }
\* an answer without any FAQ
FaqAnswers ==
    Answers(TextFaqs) \cup { <<Resolve([json |-> <<[faqs |-> <<>>]>>])>> }

\* one optional section switched off
OnlyDisabled(section) == [AllSections EXCEPT ![section] = FALSE]

SectionSettings ==
    { AllSections, NoOptionalSections, OnlyDisabled("comparisonTable"),
      OnlyDisabled("faqs"), OnlyDisabled("platformRatings") }

ArticleSetups ==
    { [sections |-> AllSections, targetSectionCount |-> 5,
       competitorHeadings |-> <<>>],
      [sections |-> OnlyDisabled("comparisonTable"), targetSectionCount |-> 5,
       competitorHeadings |-> <<>>],
      [sections |-> OnlyDisabled("faqs"), targetSectionCount |-> 5,
       competitorHeadings |-> <<>>],
      [sections |-> AllSections, targetSectionCount |-> 6,
       competitorHeadings |-> <<>>],
      [sections |-> NoOptionalSections, targetSectionCount |-> 6,
       competitorHeadings |-> <<"FAQ", "Payment Methods">>] }

Logged(j, name, events) ==
    IF CountType(events, "call") > 0 THEN Append(j.calls, name) ELSE j.calls

StartFullArticle ==
    /\ job.pc = "idle"
    /\ job.plan # <<>> /\ Head(job.plan) = "full"
    /\ \E setup \in ArticleSetups :
         job' = [NewRun(job, "full",
                        Config(job.vertical,
                               PlatformInputs(NamesOf(job.research)),
                               setup.sections, setup.targetSectionCount),
                        setup.competitorHeadings)
                 EXCEPT !.pc = "quickList",
                        !.allCitations =
                            deduplicateCitations(CitationsOf(job.research))]
    /\ UNCHANGED <<now, researchCache, reviewCache, call, history, rt, cz, unit>>

\* lines 2032-2045: a failed quick list falls back to the research texts
FullQuickList ==
    /\ job.pc = "quickList"
    /\ \E net \in QuickListAnswers(NamesOf(job.research)) :
         \E g \in {generatePlatformQuickList(job.research, job.allCitations,
                                               net)} :
         LET fallback ==
                 [k \in 1..Len(job.research) |->
                     [name |-> job.research[k].name,
                      shortDescription |->
                          ensureInTextCitations(
                              IF job.research[k].shortDescription = ""
                              THEN <<>> ELSE <<TextTok>>,
                              job.allCitations, 1)]]
         IN job' = [job EXCEPT
                       !.pc = "intro",
                       !.platformQuickList =
                           IF g.threw THEN fallback ELSE g.value,
                       !.warnings =
                           IF g.threw THEN Append(@, "quickList") ELSE @,
                       !.calls = Logged(job, "quickList", g.events)]
    /\ UNCHANGED <<now, researchCache, reviewCache, call, history, rt, cz, unit>>

FullIntro ==
    /\ job.pc = "intro"
    /\ \E net \in Answers(TextIntro) :
         \E g \in {generateIntroduction(job.config, job.platformQuickList,
                                       job.allCitations, net)} :
            job' = [job EXCEPT
                       !.pc = IF g.threw THEN "threw" ELSE "comparison",
                       !.intro = g.value,
                       !.calls = Logged(job, "intro", g.events)]
    /\ UNCHANGED <<now, researchCache, reviewCache, call, history, rt, cz, unit>>

\* mutant: the comparison table is asked for after the reviews
FullComparison_afterReviews ==
    \/ /\ job.pc = "comparison"
       /\ job' = [job EXCEPT !.pc = "reviews"]
       /\ UNCHANGED <<now, researchCache, reviewCache, call, history, rt, cz, unit>>
    \/ /\ job.pc = "reviews"
       /\ job.i = Len(job.research) + 1
       /\ job.config.includeSections.comparisonTable
       /\ \E net \in TableAnswers(NamesOf(job.research)) :
            \E g \in {generateComparisonTable(job.research, job.config, net)} :
               job' = [job EXCEPT
                          !.pc = IF g.threw THEN "threw" ELSE "reviews",
                          !.i = @ + 1,
                          !.comparisonTable = g.value,
                          !.calls = Logged(job, "comparison", g.events)]
       /\ UNCHANGED <<now, researchCache, reviewCache, call, history, rt, cz, unit>>

FullComparison ==
    /\ job.pc = "comparison"
    /\ IF job.config.includeSections.comparisonTable
       THEN \E net \in TableAnswers(NamesOf(job.research)) :
              \E g \in {generateComparisonTable(job.research, job.config, net)} :
                 job' = [job EXCEPT
                            !.pc = IF g.threw THEN "threw" ELSE "reviews",
                            !.comparisonTable = g.value,
                            !.calls = Logged(job, "comparison", g.events)]
       ELSE job' = [job EXCEPT !.pc = "reviews"]
    /\ UNCHANGED <<now, researchCache, reviewCache, call, history, rt, cz, unit>>

ArticleReviewNets == Answers(TextReviewA)

\* mutant: a new review goes to the front of the list
FullReview_prepend ==
    /\ job.pc = "reviews"
    /\ job.i <= Len(job.research)
    /\ \E net \in ArticleReviewNets :
         \E g \in {generatePlatformReview(job.research[job.i], job.config,
                        AffiliateUrlOf(job.config, job.research[job.i].name),
                        net)} :
            IF g.threw
            THEN /\ job' = [job EXCEPT
                               !.pc = "threw",
                               !.calls = Logged(job, "review", g.events)]
                 /\ UNCHANGED reviewCache
            ELSE /\ job' = [job EXCEPT
                               !.platformReviews = <<g.review[1]>> \o @,
                               !.i = @ + 1,
                               !.calls = Logged(job, "review", g.events)]
                 /\ reviewCache' = saveReviewToCache(reviewCache, g.review[1],
                                       job.config.vertical, now)
    /\ UNCHANGED <<now, researchCache, call, history, rt, cz, unit>>

\* one turn of the review loop, lines 2058-2072
FullReview ==
    /\ job.pc = "reviews"
    /\ job.i <= Len(job.research)
    /\ \E net \in ArticleReviewNets :
         \E g \in {generatePlatformReview(job.research[job.i], job.config,
                        AffiliateUrlOf(job.config, job.research[job.i].name),
                        net)} :
            IF g.threw
            THEN /\ job' = [job EXCEPT
                               !.pc = "threw",
                               !.calls = Logged(job, "review", g.events)]
                 /\ UNCHANGED reviewCache
            ELSE /\ job' = [job EXCEPT
                               !.platformReviews = Append(@, g.review[1]),
                               !.i = @ + 1,
                               !.calls = Logged(job, "review", g.events)]
                 /\ reviewCache' = saveReviewToCache(reviewCache, g.review[1],
                                       job.config.vertical, now)
    /\ UNCHANGED <<now, researchCache, call, history, rt, cz, unit>>

\* lines 2074-2118; the bounds of the model ask for at most one section
FullAdditional ==
    /\ job.pc = "reviews"
    /\ job.i > Len(job.research)
    /\ LET needed == Max(0, job.config.targetSectionCount - 5) IN
       IF needed = 0 THEN job' = [job EXCEPT !.pc = "faqs"]
       ELSE
         \E netS \in Answers(TextSections),
            netG \in Answers([html |-> <<TextTok>>]) :
           \E s \in {IF Len(job.competitorHeadings) > 0
                      THEN suggestAdditionalSections(job.competitorHeadings,
                               needed, job.config, netS)
                      ELSE [events |-> <<>>, value |-> <<>>]} :
           \E sectionTitles \in {IF s.value = <<>>
                                  THEN Slice(defaultSectionSuggestions, needed)
                                  ELSE s.value} :
           \E g \in {generateAdditionalSectionWithKeywords(sectionTitles[1],
                          job.config, netG)} :
           LET logged == [job EXCEPT !.calls = Logged(job, "suggest", s.events)]
           IN job' = [job EXCEPT
                         !.pc = "faqs",
                         !.additionalSections = <<g.value>>,
                         !.calls = Logged(logged, "section", g.events)]
    /\ UNCHANGED <<now, researchCache, reviewCache, call, history, rt, cz, unit>>

\* mutant: the FAQs are generated whatever includeSections says
FullFaqs_ungated ==
    /\ job.pc = "faqs"
    /\ \E net \in FaqAnswers :
         \E g \in {generateFAQs(job.research, job.config, net)} :
            job' = [job EXCEPT
                       !.pc = IF g.threw THEN "threw" ELSE "seo",
                       !.faqs = g.value,
                       !.calls = Logged(job, "faqs", g.events)]
    /\ UNCHANGED <<now, researchCache, reviewCache, call, history, rt, cz, unit>>

FullFaqs ==
    /\ job.pc = "faqs"
    /\ IF job.config.includeSections.faqs
       THEN \E net \in FaqAnswers :
              \E g \in {generateFAQs(job.research, job.config, net)} :
                 job' = [job EXCEPT
                            !.pc = IF g.threw THEN "threw" ELSE "seo",
                            !.faqs = g.value,
                            !.calls = Logged(job, "faqs", g.events)]
       ELSE job' = [job EXCEPT !.pc = "seo"]
    /\ UNCHANGED <<now, researchCache, reviewCache, call, history, rt, cz, unit>>

FullSeo ==
    /\ job.pc = "seo"
    /\ \E net \in AnswersOrGarbage(TextSeo) :
         \E g \in {generateSeoMetadata(job.research, job.config, net)} :
            job' = [job EXCEPT
                       !.pc = IF g.threw THEN "threw" ELSE "returned",
                       !.outcome = IF g.threw THEN "none" ELSE "article",
                       !.seoMetadata = IF g.threw THEN <<>> ELSE <<g.value>>,
                       !.calls = Logged(job, "seo", g.events)]
    /\ UNCHANGED <<now, researchCache, reviewCache, call, history, rt, cz, unit>>

\* cached.overview.replace(/<[^>]*>/g, '').substring(0, 150) + '...'
StripTags(html) ==
    [k \in 1..Len(SelectSeq(html, LAMBDA tok : tok.t \in {"text", "<a>"}))
        |-> TextTok] \o <<TextTok>>

\* mutant: the names are compared as they are spelled
RatingsFor_caseSensitive(batchRatings, platformName) ==
    LET found == SelectSeq(batchRatings, LAMBDA r :
                     r.platformName = platformName)
    IN IF found = <<>> THEN <<>> ELSE found[1].ratings

\* batchRatings.find(r => r.platformName.toLowerCase() === ...)?.ratings || []
RatingsFor(batchRatings, platformName) ==
    LET found == SelectSeq(batchRatings, LAMBDA r :
                     ToLowerCase(r.platformName) = ToLowerCase(platformName))
    IN IF found = <<>> THEN <<>> ELSE found[1].ratings

\* config.platforms.find(p => p.name.toLowerCase() === ...)?.affiliateUrl
\*     || cached.affiliateUrl
AffiliateUrlIgnoringCase(config, cached) ==
    LET found == SelectSeq(config.platforms, LAMBDA p :
                     ToLowerCase(p.name) = ToLowerCase(cached.platformName))
    IN IF found = <<>> THEN cached.affiliateUrl ELSE found[1].affiliateUrl

\* lines 1527-1547
AssembledReview(cached, batchRatings, config) ==
    [platformName |-> cached.platformName, overview |-> cached.overview,
     infosheet |-> cached.infosheet,
     ratings |-> RatingsFor(batchRatings, cached.platformName),
     pros |-> cached.pros, cons |-> cached.cons, verdict |-> cached.verdict,
     affiliateUrl |-> AffiliateUrlIgnoringCase(config, cached),
     citations |-> cached.citations]

\* lines 1486-1508: fewer than three usable reviews end the call at once
StartAssemble ==
    /\ job.pc = "idle"
    /\ job.plan # <<>> /\ Head(job.plan) = "assemble"
    /\ \E vertical \in Verticals,
          sections \in SectionSettings :
         LET config == Config(vertical, PlatformInputs(NamesOf(job.research)),
                              sections, 5)
             cachedReviews == getCachedReviews(reviewCache, vertical, now)
             platformResearch ==
                 FlatSeq([k \in 1..Len(cachedReviews) |->
                     getFromResearchCache(researchCache,
                         cachedReviews[k].platformName, vertical, now)])
             run == NewRun(job, "assemble", config, <<>>)
         IN job' = IF Len(cachedReviews) < 3
                   THEN [run EXCEPT !.pc = "returned", !.outcome = "null",
                                    !.cachedReviews = cachedReviews]
                   ELSE [run EXCEPT
                            !.pc = "ratings",
                            !.cachedReviews = cachedReviews,
                            !.platformResearch = platformResearch,
                            !.allCitations = deduplicateCitations(
                                                 CitationsOf(cachedReviews))]
    /\ UNCHANGED <<now, researchCache, reviewCache, call, history, rt, cz, unit>>

\* lines 1510-1553
AsmRatings ==
    /\ job.pc = "ratings"
    /\ \E net \in RatingsAnswers(NamesOf(
                      [k \in 1..Len(job.cachedReviews) |->
                          [name |-> job.cachedReviews[k].platformName]])) :
         \E g \in {IF job.config.includeSections.platformRatings
                    THEN generateBatchRatings(job.cachedReviews, job.config,
                                              net)
                    ELSE [threw |-> FALSE, events |-> <<>>, value |-> <<>>]} :
            job' =
              IF g.threw
              THEN [job EXCEPT !.pc = "threw",
                               !.calls = Logged(job, "ratings", g.events)]
              ELSE [job EXCEPT
                      !.pc = "asmIntro",
                      !.batchRatings = g.value,
                      !.platformReviews =
                          [k \in 1..Len(job.cachedReviews) |->
                              AssembledReview(job.cachedReviews[k], g.value,
                                              job.config)],
                      !.platformQuickList =
                          [k \in 1..Len(job.cachedReviews) |->
                              [name |-> job.cachedReviews[k].platformName,
                               shortDescription |->
                                   StripTags(job.cachedReviews[k].overview)]],
                      !.calls = Logged(job, "ratings", g.events)]
    /\ UNCHANGED <<now, researchCache, reviewCache, call, history, rt, cz, unit>>

AsmIntro ==
    /\ job.pc = "asmIntro"
    /\ \E net \in Answers(TextIntro) :
         \E g \in {generateIntroduction(job.config, job.platformQuickList,
                                       job.allCitations, net)} :
            job' = [job EXCEPT
                       !.pc = IF g.threw THEN "threw" ELSE "asmComparison",
                       !.intro = g.value,
                       !.calls = Logged(job, "intro", g.events)]
    /\ UNCHANGED <<now, researchCache, reviewCache, call, history, rt, cz, unit>>

\* lines 1559-1564
AsmComparison ==
    /\ job.pc = "asmComparison"
    /\ IF job.config.includeSections.comparisonTable
          /\ Len(job.platformResearch) > 0
       THEN \E net \in AnswersOrGarbage(
                           TextTable(NamesOf(job.platformResearch))) :
              \E g \in {generateComparisonTable(job.platformResearch,
                                               job.config, net)} :
                 job' = [job EXCEPT
                            !.pc = IF g.threw THEN "threw" ELSE "asmFaqs",
                            !.comparisonTable = g.value,
                            !.calls = Logged(job, "comparison", g.events)]
       ELSE job' = [job EXCEPT !.pc = "asmFaqs"]
    /\ UNCHANGED <<now, researchCache, reviewCache, call, history, rt, cz, unit>>

\* lines 1566-1571
AsmFaqs ==
    /\ job.pc = "asmFaqs"
    /\ IF job.config.includeSections.faqs /\ Len(job.platformResearch) > 0
       THEN \E net \in Answers(TextFaqs) :
              \E g \in {generateFAQs(job.platformResearch, job.config, net)} :
                 job' = [job EXCEPT
                            !.pc = IF g.threw THEN "threw" ELSE "asmSeo",
                            !.faqs = g.value,
                            !.calls = Logged(job, "faqs", g.events)]
       ELSE job' = [job EXCEPT !.pc = "asmSeo"]
    /\ UNCHANGED <<now, researchCache, reviewCache, call, history, rt, cz, unit>>

\* lines 1573-1588
AsmSeo ==
    /\ job.pc = "asmSeo"
    /\ IF Len(job.platformResearch) > 0
       THEN \E net \in AnswersOrGarbage(TextSeo) :
              \E g \in {generateSeoMetadata(job.platformResearch, job.config,
                                           net)} :
                 job' = [job EXCEPT
                            !.pc = IF g.threw THEN "threw" ELSE "returned",
                            !.outcome = IF g.threw THEN "none" ELSE "article",
                            !.seoMetadata =
                                IF g.threw THEN <<>> ELSE <<g.value>>,
                            !.calls = Logged(job, "seo", g.events)]
       ELSE job' = [job EXCEPT !.pc = "returned", !.outcome = "article"]
    /\ UNCHANGED <<now, researchCache, reviewCache, call, history, rt, cz, unit>>

\* the caller takes the article, null or the error
ArticleReturn ==
    /\ job.pc \in {"returned", "threw"}
    /\ job' = IdleArticleJob(job.research, job.vertical, job.plan)
    /\ UNCHANGED <<now, researchCache, reviewCache, call, history, rt, cz, unit>>

NextArticle ==
    \/ ArticleTick
    \/ StartFullArticle
    \/ FullQuickList
    \/ FullIntro
    \/ FullComparison
    \/ FullReview
    \/ FullAdditional
    \/ FullFaqs
    \/ FullSeo
    \/ StartAssemble
    \/ AsmRatings
    \/ AsmIntro
    \/ AsmComparison
    \/ AsmFaqs
    \/ AsmSeo
    \/ ArticleReturn

SpecArticle == InitArticle /\ [][NextArticle]_vars

\* the GeneratedArticle the run returns (lines 1579-1588 and 2130-2139)
GeneratedArticle ==
    [intro |-> job.intro, platformQuickList |-> job.platformQuickList,
     comparisonTable |-> job.comparisonTable,
     platformReviews |-> job.platformReviews,
     additionalSections |-> job.additionalSections, faqs |-> job.faqs,
     allCitations |-> job.allCitations, seoMetadata |-> job.seoMetadata]

\* the keys of the review-cache entries assembleArticleFromCache can use
UsableReviews ==
    {k \in DOMAIN reviewCache :
        /\ now - reviewCache[k].timestamp <= 24
        /\ reviewCache[k].vertical = job.config.vertical}

\* C5: with fewer than 3 unexpired reviews of the config's vertical in the
\* review cache, assembleArticleFromCache returns null and has made no
\* model request; with exactly 3 it never returns null, and the article it
\* returns when no model call fails has exactly 3 platformReviews, one per
\* cached review.
C5_AssembleThreshold ==
    job.kind = "assemble" =>
        /\ Cardinality(UsableReviews) < 3 =>
              /\ job.pc = "returned"
              /\ job.outcome = "null"
              /\ job.calls = <<>>
        /\ Cardinality(UsableReviews) = 3 =>
              /\ job.outcome # "null"
              /\ job.pc = "returned" =>
                    /\ job.outcome = "article"
                    /\ Len(GeneratedArticle.platformReviews) = 3
                    /\ \A k \in UsableReviews :
                          \E i \in 1..3 :
                             LET r == GeneratedArticle.platformReviews[i] IN
                             /\ r.platformName = reviewCache[k].platformName
                             /\ r.overview = reviewCache[k].overview
                             /\ r.citations = reviewCache[k].citations

\* three cached reviews, every model call answered: an article of three
\* reviews, with the ratings of the one batch call
C5_Witness ==
    /\ job.kind = "assemble"
    /\ job.pc = "returned"
    /\ job.outcome = "article"
    /\ Cardinality(UsableReviews) = 3
    /\ Len(GeneratedArticle.platformReviews) = 3
    /\ job.calls = <<"ratings", "intro", "comparison", "faqs", "seo">>

\* C10: the allCitations of every article that generateFullArticle or
\* assembleArticleFromCache returns holds no two citations whose domains
\* are equal ignoring case.
C10_ArticleCitations ==
    job.outcome = "article" =>
        \A k, l \in 1..Len(GeneratedArticle.allCitations) :
            ToLowerCase(GeneratedArticle.allCitations[k].domain)
                = ToLowerCase(GeneratedArticle.allCitations[l].domain)
            => k = l

\* the research records cite b.com and B.com, three times over
C10_Witness ==
    /\ job.kind = "full"
    /\ job.outcome = "article"
    /\ \E k \in 1..Len(job.research) :
          \E c, d \in {job.research[k].citations[n] :
                          n \in 1..Len(job.research[k].citations)} :
             c.domain # d.domain /\ SameDomain(c, d)
    /\ Len(GeneratedArticle.allCitations) = 1

Range(s) == {s[i] : i \in DOMAIN s}

\* C15: a section disabled in config.includeSections causes no request of
\* its generator and leaves its field of the article empty: comparisonTable
\* and faqs in generateFullArticle and assembleArticleFromCache,
\* platformRatings (the batch ratings) in assembleArticleFromCache.
C15_DisabledSections ==
    job.kind \in {"full", "assemble"} =>
        LET include == job.config.includeSections IN
        /\ ~include.comparisonTable =>
              /\ "comparison" \notin Range(job.calls)
              /\ GeneratedArticle.comparisonTable = <<>>
        /\ ~include.faqs =>
              /\ "faqs" \notin Range(job.calls)
              /\ GeneratedArticle.faqs = <<>>
        /\ (job.kind = "assemble" /\ ~include.platformRatings) =>
              /\ "ratings" \notin Range(job.calls)
              /\ job.batchRatings = <<>>
              /\ \A i \in 1..Len(GeneratedArticle.platformReviews) :
                    GeneratedArticle.platformReviews[i].ratings = <<>>

\* a full article without comparison table whose FAQs were generated
C15_Witness ==
    /\ job.kind = "full"
    /\ job.pc = "returned" /\ job.outcome = "article"
    /\ ~job.config.includeSections.comparisonTable
    /\ job.config.includeSections.faqs
    /\ "comparison" \notin Range(job.calls)
    /\ "faqs" \in Range(job.calls)
    /\ GeneratedArticle.comparisonTable = <<>>
    /\ GeneratedArticle.faqs # <<>>

\* a generateFullArticle run with every section enabled has returned
FullArticleReturned ==
    /\ job.kind = "full"
    /\ job.pc = "returned" /\ job.outcome = "article"
    /\ job.config.includeSections = AllSections

\* the i-th review is the review of the i-th research record
ReviewsFollowResearch ==
    /\ Len(GeneratedArticle.platformReviews) = Len(job.research)
    /\ \A i \in 1..Len(job.research) :
          LET review == GeneratedArticle.platformReviews[i] IN
          /\ review.platformName = job.research[i].name
          /\ review.infosheet = job.research[i].infosheet
          /\ review.citations = job.research[i].citations

\* C17 as stated: with n research records and every section enabled, the
\* article of a completed generateFullArticle run has n quick-list entries,
\* n reviews (the i-th of the i-th record), n comparison rows and at least
\* one FAQ.
C17_Claimed ==
    FullArticleReturned =>
        /\ Len(GeneratedArticle.platformQuickList) = Len(job.research)
        /\ ReviewsFollowResearch
        /\ Len(GeneratedArticle.comparisonTable) = Len(job.research)
        /\ GeneratedArticle.faqs # <<>>

\* C17 amended: the n reviews, in the order of the records, are what the
\* code guarantees; the quick list has n entries named after the records
\* when the quick-list request failed and the fallback of lines 2039-2044
\* was taken, and is otherwise, like the comparison rows and the FAQs, the
\* list the model answered with.
C17_Amended ==
    FullArticleReturned =>
        /\ ReviewsFollowResearch
        /\ "quickList" \in Range(job.warnings) =>
              /\ Len(GeneratedArticle.platformQuickList) = Len(job.research)
              /\ \A i \in 1..Len(job.research) :
                    GeneratedArticle.platformQuickList[i].name =
                        job.research[i].name

\* a completed run over three records whose quick list and table hold the
\* two entries the model answered with, next to three reviews
C17_Witness ==
    /\ FullArticleReturned
    /\ Len(job.research) = 3
    /\ Len(GeneratedArticle.platformReviews) = 3
    /\ Len(GeneratedArticle.platformQuickList) = 2
    /\ Len(GeneratedArticle.comparisonTable) = 2
    /\ job.warnings = <<>>

RECURSIVE SumScores(_)
SumScores(ratings) ==
    IF ratings = <<>> THEN 0
    ELSE ratings[1].score + SumScores(Tail(ratings))

\* the breakpoints of C19 on the average sum / count of the category
\* scores, compared in tenths
StarsOfAverage(ratings) ==
    LET sum == 10 * SumScores(ratings)
        count == Len(ratings)
    IN IF sum >= 90 * count THEN "5 stars"
       ELSE IF sum >= 75 * count THEN "4 stars"
       ELSE IF sum >= 60 * count THEN "3 stars"
       ELSE IF sum >= 45 * count THEN "2 stars"
       ELSE "1 star"

\* C19 as stated: the star rating of a platform's comparison-table row is
\* the one the breakpoints give for the average of the platform's 1-10
\* category scores.
C19_Claimed ==
    job.outcome = "article" =>
        \A i \in 1..Len(GeneratedArticle.comparisonTable) :
           \A j \in 1..Len(GeneratedArticle.platformReviews) :
              LET row == GeneratedArticle.comparisonTable[i]
                  review == GeneratedArticle.platformReviews[j]
              IN (/\ row.platformName = review.platformName
                  /\ review.ratings # <<>>)
                 => row.rating = StarsOfAverage(review.ratings)

\* C21 as stated: in generateFullArticle and assembleArticleFromCache the
\* failure of one generator call is caught at its section or platform, so
\* no run ends with the error of a generator: the remaining sections are
\* generated and an article is returned.
C21_Claimed ==
    job.kind \in {"full", "assemble"} => job.pc # "threw"

\* the place of a generator in the order of generateFullArticle
GeneratorRank(name) ==
    CASE name = "quickList" -> 1
      [] name = "intro" -> 2
      [] name = "comparison" -> 3
      [] name = "review" -> 4
      [] name = "suggest" -> 5
      [] name = "section" -> 6
      [] name = "faqs" -> 7
      [] name = "seo" -> 8

\* the requests of a generateFullArticle run that went through: a review
\* is requested for every record with valid research data
ExpectedCalls ==
    LET needed == job.config.targetSectionCount > 5 IN
    <<"quickList", "intro">>
    \o (IF job.config.includeSections.comparisonTable
        THEN <<"comparison">> ELSE <<>>)
    \o [k \in 1..Len(SelectSeq(job.research, hasValidResearchData))
           |-> "review"]
    \o (IF needed /\ job.competitorHeadings # <<>>
        THEN <<"suggest">> ELSE <<>>)
    \o (IF needed THEN <<"section">> ELSE <<>>)
    \o (IF job.config.includeSections.faqs THEN <<"faqs">> ELSE <<>>)
    \o <<"seo">>

\* C26: the requests of generateFullArticle follow one another in the
\* order quick list, introduction, comparison table (if enabled), the
\* reviews in the order of the input, additional sections (if requested),
\* FAQs (if enabled), SEO metadata; each generator other than the review
\* is called at most once, and a run that returns has called all of them.
C26_Order ==
    job.kind = "full" =>
        /\ \A i, j \in 1..Len(job.calls) :
              i < j =>
                 /\ GeneratorRank(job.calls[i]) <= GeneratorRank(job.calls[j])
                 /\ job.calls[i] = job.calls[j] => job.calls[i] = "review"
        /\ job.calls = SubSeq(ExpectedCalls, 1, Len(job.calls))
        /\ \A i \in 1..Len(job.platformReviews) :
              job.platformReviews[i].platformName = job.research[i].name
        /\ job.pc = "returned" =>
              /\ job.calls = ExpectedCalls
              /\ Len(job.platformReviews) = Len(job.research)

\* a run with every section and one additional section has returned
C26_Witness ==
    /\ job.kind = "full"
    /\ job.pc = "returned"
    /\ job.calls = <<"quickList", "intro", "comparison", "review", "review",
                     "review", "section", "faqs", "seo">>
    /\ Len(job.platformReviews) = 3

\* the entries of the batch answer that name the platform, ignoring case
RatedAs(platformName) ==
    {k \in 1..Len(job.batchRatings) :
        ToLowerCase(job.batchRatings[k].platformName)
            = ToLowerCase(platformName)}

\* C28: no entry of the review cache holds ratings; an assembly with
\* ratings enabled asks for the batch ratings once and asks for no review,
\* and each assembled review carries the ratings the batch answer gives for
\* its platform (the first entry naming it, ignoring case) and none when
\* the answer does not name it; with ratings disabled nothing is asked and
\* the reviews carry no ratings.
C28_BatchRatings ==
    /\ \A k \in DOMAIN reviewCache : "ratings" \notin DOMAIN reviewCache[k]
    /\ (job.kind = "assemble" /\ job.pc \notin {"ratings", "threw"}
        /\ job.outcome # "null") =>
          /\ Len(SelectSeq(job.calls, LAMBDA c : c = "ratings"))
                = IF job.config.includeSections.platformRatings THEN 1 ELSE 0
          /\ \A i \in 1..Len(job.calls) : job.calls[i] # "review"
          /\ Len(job.platformReviews) = Len(job.cachedReviews)
          /\ ~job.config.includeSections.platformRatings
                => job.batchRatings = <<>>
          /\ \A i \in 1..Len(job.platformReviews) :
                LET review == job.platformReviews[i]
                    rated == RatedAs(job.cachedReviews[i].platformName)
                IN /\ review.platformName = job.cachedReviews[i].platformName
                   /\ review.ratings =
                         IF rated = {} THEN <<>>
                         ELSE job.batchRatings[
                                  CHOOSE k \in rated :
                                     \A k2 \in rated : k <= k2].ratings

\* the batch answer names ACME and Bravo: the cached review of Acme gets
\* the ratings given for ACME, the one of Charlie gets none
C28_Witness ==
    /\ job.kind = "assemble"
    /\ job.pc = "returned"
    /\ job.outcome = "article"
    /\ Len(job.batchRatings) = 2
    /\ job.batchRatings[1].platformName = "ACME"
    /\ job.platformReviews[1].platformName = "Acme"
    /\ job.platformReviews[1].ratings
          = <<[category |-> "Security", score |-> 7]>>
    /\ job.platformReviews[3].platformName = "Charlie"
    /\ job.platformReviews[3].ratings = <<>>

(***************************************************************************)
(* SpecHtml: ensureInTextCitations on bounded HTML and citation lists      *)
(***************************************************************************)
\* an <a> tag without href: the link count of line 399 does not count it
NamedAnchor == [t |-> "<a name>", href |-> <<>>, label |-> ""]

\* the anchor is the link of the first citation of HtmlCitations
HtmlTokens ==
    {POpen, PClose, TextTok, Anchor(<<"https://a.com/review">>, "a.com"),
     NamedAnchor}

HtmlCitations ==
    {Cite("a.com", "https://a.com/review"), Cite("B.com", "B.com")}

InitHtml ==
    /\ now = 0
    /\ researchCache = EmptyCache
    /\ reviewCache = EmptyCache
    /\ call = IdleCall(<<>>)
    /\ history = <<>>
    /\ rt = IdleRt
    /\ cz = IdleCz
    /\ job = IdleJob
    /\ \E html \in SeqsUpTo(HtmlTokens, MaxHtmlLen),
          citations \in SeqsUpTo(HtmlCitations, MaxCiteLen),
          minCount \in 0..MaxMinCount :
         unit = [phase |-> "ready", html |-> html, citations |-> citations,
                 minCount |-> minCount, out |-> <<>>]

RunEnsureCitations ==
    /\ unit.phase = "ready"
    /\ unit' = [unit EXCEPT
                   !.phase = "done",
                   !.out = ensureInTextCitations(unit.html, unit.citations,
                                                 unit.minCount)]
    /\ UNCHANGED <<now, researchCache, reviewCache, call, history, rt, cz, job>>

NextHtml == RunEnsureCitations

SpecHtml == InitHtml /\ [][NextHtml]_vars

AnchorTags(html) ==
    Len(SelectSeq(html, LAMBDA tok : tok.t \in {"<a>", "<a name>"}))

HrefAnchors(html) == Len(SelectSeq(html, LAMBDA tok : tok.t = "<a>"))

\* where added anchors belong: the position of the last '</p>', or one past
\* the end when there is none
InsertionPoint(html) ==
    IF \E i \in 1..Len(html) : html[i] = PClose
    THEN CHOOSE i \in 1..Len(html) :
            /\ html[i] = PClose
            /\ \A j \in (i + 1)..Len(html) : html[j] # PClose
    ELSE Len(html) + 1

\* out is html with k anchors put in at the insertion point
InsertedAt(html, out, k) ==
    LET p == InsertionPoint(html) IN
    /\ Len(out) = Len(html) + k
    /\ \A i \in 1..(p - 1) : out[i] = html[i]
    /\ \A i \in p..(p + k - 1) : out[i].t = "<a>"
    /\ \A i \in p..Len(html) : out[i + k] = html[i]

\* C11 as stated: with at least minCount citations the result has at least
\* minCount anchor tags, whatever the HTML (the empty string included);
\* anchors that are added stand right before the last '</p>' (at the end
\* when there is none) with the rest unchanged; HTML that already has
\* minCount anchor tags comes back unchanged.
C11_Claimed ==
    (unit.phase = "done" /\ Len(unit.citations) >= unit.minCount) =>
        /\ AnchorTags(unit.out) >= unit.minCount
        /\ unit.out # unit.html =>
              InsertedAt(unit.html, unit.out, Len(unit.out) - Len(unit.html))
        /\ AnchorTags(unit.html) >= unit.minCount => unit.out = unit.html

\* C11 amended: for NON-EMPTY HTML and at least minCount citations the
\* result has at least minCount anchors with an href; the missing
\* minCount - linkCount anchors stand right before the last '</p>' (at the
\* end when there is none) and the rest is unchanged; HTML that already has
\* minCount anchors with an href comes back unchanged, and so does the empty
\* string, which stays without anchors.
C11_Amended ==
    unit.phase = "done" =>
        /\ unit.html = <<>> => unit.out = <<>>
        /\ HrefAnchors(unit.html) >= unit.minCount => unit.out = unit.html
        /\ (/\ unit.html # <<>>
            /\ Len(unit.citations) >= unit.minCount
            /\ HrefAnchors(unit.html) < unit.minCount) =>
               /\ HrefAnchors(unit.out) = unit.minCount
               /\ InsertedAt(unit.html, unit.out,
                             unit.minCount - HrefAnchors(unit.html))

\* two anchors were put before the last '</p>' of <p>text</p>
C11_Witness ==
    /\ unit.phase = "done"
    /\ unit.html = <<POpen, TextTok, PClose>>
    /\ unit.minCount = 2
    /\ Len(unit.citations) >= 2
    /\ Len(unit.out) = 5
    /\ unit.out[3].t = "<a>" /\ unit.out[4].t = "<a>" /\ unit.out[5] = PClose

\* how often the HTML links the citation
LinksTo(html, citation) ==
    Len(SelectSeq(html, LAMBDA tok : tok = buildCitationAnchor(citation)))

\* C24 as stated: the anchors are built from citations that the HTML does
\* not link yet, so for a citation list without repetitions the injection
\* links no citation twice that was not linked twice before.
C24_Claimed ==
    (/\ unit.phase = "done"
     /\ \A i, j \in 1..Len(unit.citations) :
           unit.citations[i] = unit.citations[j] => i = j)
        => \A i \in 1..Len(unit.citations) :
              \/ LinksTo(unit.out, unit.citations[i]) <= 1
              \/ LinksTo(unit.out, unit.citations[i])
                     = LinksTo(unit.html, unit.citations[i])

(***************************************************************************)
(* SpecReview: generatePlatformReview on research records of every shape   *)
(***************************************************************************)
\* the record of a research that went well, and the one of a failed research
ResearchedRecord ==
    researchPlatform("Acme", "gambling", TONGYI_DEEP_RESEARCH,
                     GoodNet(TONGYI_DEEP_RESEARCH), 0).record
FailedRecord ==
    researchPlatform("Acme", "gambling", TONGYI_DEEP_RESEARCH, BadNet,
                     0).record

\* the infosheets, pros and key features a research answer may carry
ReviewInfos ==
    { InfoFull, InfoSparse, InfoNotDisclosed,
      [InfoFull EXCEPT !.license = "Unknown"],
      [InfoSparse EXCEPT !.license = "N/A"] }
ReviewResearchPros == { <<>>, <<"Fast payouts", "Licensed">> }
ReviewKeyFeatures ==
    { <<>>, <<"Live casino">>,
      <<"", "Live casino", "Slots", "Poker", "VIP club">> }

ReviewRecords ==
    { [ResearchedRecord EXCEPT
          !.infosheet = Stamp(info, <<"Research sources">>, 0),
          !.pros = pros, !.keyFeatures = features, !.citations = citations] :
        info \in ReviewInfos, pros \in ReviewResearchPros,
        features \in ReviewKeyFeatures,
        citations \in {<<>>, ResearchedRecord.citations} }
    \cup {ResearchedRecord, FailedRecord}

ReviewJsonC ==
    [overview |-> <<POpen, TextTok, PClose>>, ratings |-> <<>>,
     pros |-> <<"Good bonus", "Fast support", "Many games">>,
     cons |-> <<"Slow KYC">>, verdict |-> <<POpen, TextTok, PClose>>]

ReviewAnswers ==
    ReviewNets \cup { <<Resolve([json |-> <<ReviewJsonC>>])>> }

ReviewSections ==
    { [AllSections EXCEPT !.prosCons = pc, !.verdict = vd] :
        pc \in BOOLEAN, vd \in BOOLEAN }

InitReview ==
    /\ now = 0
    /\ researchCache = EmptyCache
    /\ reviewCache = EmptyCache
    /\ call = IdleCall(<<>>)
    /\ history = <<>>
    /\ rt = IdleRt
    /\ cz = IdleCz
    /\ job = IdleJob
    /\ \E research \in ReviewRecords, sections \in ReviewSections,
          net \in ReviewAnswers :
         unit = [phase |-> "ready", research |-> research,
                 config |-> Config("gambling", PlatformInputs(<<"Acme">>),
                                   sections, 5),
                 net |-> net,
                 out |-> [threw |-> FALSE, events |-> <<>>, review |-> <<>>]]

RunReview ==
    /\ unit.phase = "ready"
    /\ unit' = [unit EXCEPT
                   !.phase = "done",
                   !.out = generatePlatformReview(unit.research, unit.config,
                               AffiliateUrlOf(unit.config, unit.research.name),
                               unit.net)]
    /\ UNCHANGED <<now, researchCache, reviewCache, call, history, rt, cz, job>>

NextReview == RunReview

SpecReview == InitReview /\ [][NextReview]_vars

\* the review is the 'requires manual review' placeholder
IsPlaceholder(review) == review.overview = NoDataOverview

\* C12 as stated: a record without valid data, and in particular the
\* degraded record of a failed research, causes no model request and is
\* answered with the placeholder review.
C12_Claimed ==
    (/\ unit.phase = "done"
     /\ ~hasValidResearchData(unit.research) \/ IsDegraded(unit.research)) =>
        /\ unit.out.events = <<>>
        /\ ~unit.out.threw
        /\ IsPlaceholder(unit.out.review[1])

\* what the writing model answered with, when the answer was usable
ModelAnswered ==
    /\ unit.net[1].ok
    /\ parseJsonResponse(unit.net[1].value) # <<>>
ModelReview == parseJsonResponse(unit.net[1].value)[1]

NonEmptyFeatures ==
    SelectSeq(unit.research.keyFeatures, LAMBDA f : f # "")

\* the pros the writing model returned in this invocation, none when it
\* was not asked
ModelPros == IF unit.out.events # <<>> THEN ModelReview.pros ELSE <<>>

\* the cascade of C13, on the inputs of the invocation
CascadePros(modelPros, features) ==
    IF modelPros # <<>> THEN modelPros
    ELSE IF unit.research.pros # <<>> THEN unit.research.pros
    ELSE IF features # <<>> THEN Slice(features, 3)
    ELSE buildFallbackProsFromInfosheet(unit.research)

\* C13 as stated: with pros/cons enabled the pros of every returned review
\* are the model's pros, else the research pros, else the first 3 research
\* key features, else the pros built from the infosheet.
C13_Claimed ==
    (/\ unit.phase = "done"
     /\ ~unit.out.threw
     /\ unit.config.includeSections.prosCons) =>
        unit.out.review[1].pros =
            CascadePros(ModelPros, unit.research.keyFeatures)

\* C13 amended: the cascade applies to the records that pass
\* hasValidResearchData, and the key features it uses are the first 3
\* NON-EMPTY ones; a record that does not pass gets the single placeholder
\* pro, whatever pros and key features it carries.
C13_Amended ==
    (/\ unit.phase = "done"
     /\ ~unit.out.threw
     /\ unit.config.includeSections.prosCons) =>
        IF hasValidResearchData(unit.research)
        THEN /\ ModelAnswered
             /\ unit.out.review[1].pros =
                    CascadePros(ModelReview.pros, NonEmptyFeatures)
        ELSE unit.out.review[1].pros =
                 <<"Information pending manual research">>

\* the model returned no pros and the review carries the two research pros
C13_Witness ==
    /\ unit.phase = "done"
    /\ ~unit.out.threw
    /\ unit.config.includeSections.prosCons
    /\ hasValidResearchData(unit.research)
    /\ ModelAnswered /\ ModelReview.pros = <<>>
    /\ unit.research.pros = <<"Fast payouts", "Licensed">>
    /\ Len(buildFallbackProsFromInfosheet(unit.research)) > 0
    /\ unit.out.review[1].pros = unit.research.pros

\* C14 as stated: every returned review has at most len(pros) - 1 cons, and
\* none when it has no pros.
C14_Claimed ==
    (unit.phase = "done" /\ ~unit.out.threw) =>
        LET review == unit.out.review[1] IN
        IF review.pros = <<>> THEN review.cons = <<>>
        ELSE Len(review.cons) <= Len(review.pros) - 1

\* C14 amended: the bound holds for the reviews written from the model's
\* answer (records that pass hasValidResearchData); the placeholder review
\* has one pro and one con when pros/cons are enabled and neither otherwise.
C14_Amended ==
    (unit.phase = "done" /\ ~unit.out.threw) =>
        LET review == unit.out.review[1] IN
        IF hasValidResearchData(unit.research)
        THEN IF review.pros = <<>> THEN review.cons = <<>>
             ELSE Len(review.cons) <= Len(review.pros) - 1
        ELSE /\ IsPlaceholder(review)
             /\ Len(review.pros) = Len(review.cons)
             /\ Len(review.pros) =
                   IF unit.config.includeSections.prosCons THEN 1 ELSE 0

\* the model's three cons were cut to one by its two pros
C14_Witness ==
    /\ unit.phase = "done"
    /\ ~unit.out.threw
    /\ hasValidResearchData(unit.research)
    /\ ModelAnswered
    /\ Len(ModelReview.cons) = 3
    /\ Len(unit.out.review[1].pros) = 2
    /\ Len(unit.out.review[1].cons) = 1

(***************************************************************************)
(* SpecAssemble: assembleArticleFromCache (lines 1482-1589) as one call,   *)
(* made twice on the same review cache, configuration and model answers    *)
(* with two research caches                                                *)
(***************************************************************************)
SkippedStep == [threw |-> FALSE, events |-> <<>>, value |-> <<>>]

\* lines 1510-1588, from the cached reviews and the research records found
AssembleFrom(config, cachedReviews, platformResearch, nets) ==
    LET include == config.includeSections
        dedupedCitations == deduplicateCitations(CitationsOf(cachedReviews))
        ratings == IF include.platformRatings
                   THEN generateBatchRatings(cachedReviews, config,
                                             nets.ratings)
                   ELSE SkippedStep
        platformQuickList ==
            [k \in 1..Len(cachedReviews) |->
                [name |-> cachedReviews[k].platformName,
                 shortDescription |-> StripTags(cachedReviews[k].overview)]]
        intro == generateIntroduction(config, platformQuickList,
                                      dedupedCitations, nets.intro)
        table == IF include.comparisonTable /\ Len(platformResearch) > 0
                 THEN generateComparisonTable(platformResearch, config,
                                              nets.table)
                 ELSE SkippedStep
        faqs == IF include.faqs /\ Len(platformResearch) > 0
                THEN generateFAQs(platformResearch, config, nets.faqs)
                ELSE SkippedStep
        seo == IF Len(platformResearch) > 0
               THEN generateSeoMetadata(platformResearch, config, nets.seo)
               ELSE SkippedStep
    IN IF Len(cachedReviews) < 3
       THEN [outcome |-> "null", article |-> <<>>]
       ELSE IF \/ ratings.threw \/ intro.threw \/ table.threw
               \/ faqs.threw \/ seo.threw
       THEN [outcome |-> "threw", article |-> <<>>]
       ELSE [outcome |-> "article",
             article |-> <<
                [intro |-> intro.value,
                 platformQuickList |-> platformQuickList,
                 comparisonTable |-> table.value,
                 platformReviews |->
                     [k \in 1..Len(cachedReviews) |->
                         AssembledReview(cachedReviews[k], ratings.value,
                                         config)],
                 additionalSections |-> <<>>,
                 faqs |-> faqs.value,
                 allCitations |-> dedupedCitations,
                 seoMetadata |-> IF Len(platformResearch) > 0
                                 THEN <<seo.value>> ELSE <<>>] >>]

\* lines 1494-1506: the research records of the cached reviews' platforms
ResearchOfReviews(cachedReviews, research, vertical, clock) ==
    FlatSeq([k \in 1..Len(cachedReviews) |->
                getFromResearchCache(research, cachedReviews[k].platformName,
                                     vertical, clock)])

\* mutant: only the reviews whose research record is cached are used
assembleArticleFromCache_researchedOnly(config, reviews, research, nets, clock) ==
    LET cachedReviews ==
            SelectSeq(getCachedReviews(reviews, config.vertical, clock),
                LAMBDA r : getFromResearchCache(research, r.platformName,
                               config.vertical, clock) # <<>>)
    IN AssembleFrom(config, cachedReviews,
                    ResearchOfReviews(cachedReviews, research,
                                      config.vertical, clock),
                    nets)

assembleArticleFromCache(config, reviews, research, nets, clock) ==
    LET cachedReviews == getCachedReviews(reviews, config.vertical, clock)
    IN AssembleFrom(config, cachedReviews,
                    ResearchOfReviews(cachedReviews, research,
                                      config.vertical, clock),
                    nets)

AssembleNames == <<"Acme", "Bravo", "Charlie">>

AssembleRecords(vertical) ==
    [k \in 1..Len(AssembleNames) |->
        researchPlatform(AssembleNames[k], vertical, TONGYI_DEEP_RESEARCH,
                         GoodNet(TONGYI_DEEP_RESEARCH), 0).record]

\* the review cache after the reviews of the first n records were written
RECURSIVE ReviewedCache(_, _, _, _)
ReviewedCache(records, n, config, clock) ==
    IF n = 0 THEN EmptyCache
    ELSE saveReviewToCache(
             ReviewedCache(records, n - 1, config, clock),
             generatePlatformReview(records[n], config,
                 AffiliateUrlOf(config, records[n].name),
                 <<Resolve(TextReviewA)>>).review[1],
             config.vertical, clock)

\* the research caches the two calls may find: none to three records of
\* the vertical, or the three records written under the other vertical
AssembleResearchCaches(vertical) ==
    { ResearchedCache(AssembleRecords(vertical), n, vertical, 0) :
        n \in 0..Len(AssembleNames) }
    \cup { ResearchedCache(AssembleRecords(vertical), Len(AssembleNames),
                           CHOOSE v \in Verticals : v # vertical, 0) }

AssembleNets ==
    [ratings : Answers(TextRatings(AssembleNames)),
     intro : {<<Resolve(TextIntro)>>},
     table : AnswersOrGarbage(TextTable(AssembleNames)),
     faqs : {<<Resolve(TextFaqs)>>},
     seo : AnswersOrGarbage(TextSeo)]

NotAssembled == [outcome |-> "none", article |-> <<>>]

InitAssemble ==
    /\ now = 0
    /\ researchCache = EmptyCache
    /\ reviewCache = EmptyCache
    /\ call = IdleCall(<<>>)
    /\ history = <<>>
    /\ rt = IdleRt
    /\ cz = IdleCz
    /\ job = IdleJob
    /\ \E vertical \in Verticals, sections \in SectionSettings,
          reviewed \in 2..Len(AssembleNames), nets \in AssembleNets :
       \E config \in {Config(vertical, PlatformInputs(AssembleNames),
                             sections, 5)} :
       \E researchA \in AssembleResearchCaches(vertical),
          researchB \in AssembleResearchCaches(vertical) :
         unit = [phase |-> "ready", config |-> config,
                 reviews |-> ReviewedCache(AssembleRecords(vertical),
                                           reviewed, config, 0),
                 researchA |-> researchA, researchB |-> researchB,
                 nets |-> nets, outA |-> NotAssembled, outB |-> NotAssembled]

RunAssembleTwice ==
    /\ unit.phase = "ready"
    /\ unit' = [unit EXCEPT
                   !.phase = "done",
                   !.outA = assembleArticleFromCache(unit.config,
                                unit.reviews, unit.researchA, unit.nets, now),
                   !.outB = assembleArticleFromCache(unit.config,
                                unit.reviews, unit.researchB, unit.nets, now)]
    /\ UNCHANGED <<now, researchCache, reviewCache, call, history, rt, cz, job>>

NextAssemble == RunAssembleTwice

SpecAssemble == InitAssemble /\ [][NextAssemble]_vars

\* C16 as stated: for a fixed review cache, configuration and model
\* behaviour the outcome of assembleArticleFromCache is the same whatever
\* the research cache holds.
C16_Claimed ==
    unit.phase = "done" => unit.outA = unit.outB

\* the fields of an assembled article that are built from cached reviews
ReviewCacheFields(article) ==
    [f \in {"intro", "platformQuickList", "platformReviews",
            "additionalSections", "allCitations"} |-> article[f]]

\* the research records the call with this research cache finds
FoundResearch(research) ==
    ResearchOfReviews(getCachedReviews(unit.reviews, unit.config.vertical,
                                       now),
                      research, unit.config.vertical, now)

\* C16 amended: whether the call returns null, and the intro, quick list,
\* reviews, additional sections and citations of the article it returns,
\* depend on the review cache alone; the comparison table, the FAQs and
\* the SEO metadata are generated from the research-cache records of the
\* cached reviews' platforms, and are left out when there is none; two
\* calls that find the same records return the same.
C16_Amended ==
    unit.phase = "done" =>
        /\ (unit.outA.outcome = "null") = (unit.outB.outcome = "null")
        /\ (unit.outA.outcome = "article" /\ unit.outB.outcome = "article")
              => ReviewCacheFields(unit.outA.article[1])
                     = ReviewCacheFields(unit.outB.article[1])
        /\ (unit.outA.outcome # "null" /\ FoundResearch(unit.researchA) = <<>>)
              => /\ unit.outA.outcome = "article" =>
                       /\ unit.outA.article[1].comparisonTable = <<>>
                       /\ unit.outA.article[1].faqs = <<>>
                       /\ unit.outA.article[1].seoMetadata = <<>>
        /\ FoundResearch(unit.researchA) = FoundResearch(unit.researchB)
              => unit.outA = unit.outB

\* the same three reviews, every section enabled: with the research of the
\* platforms cached the article has a table, FAQs and SEO metadata, with
\* an empty research cache it has none of them
C16_Witness ==
    /\ unit.phase = "done"
    /\ unit.config.includeSections = AllSections
    /\ unit.researchB = EmptyCache
    /\ unit.outA.outcome = "article" /\ unit.outB.outcome = "article"
    /\ Len(unit.outA.article[1].comparisonTable) = 3
    /\ unit.outA.article[1].faqs # <<>>
    /\ unit.outA.article[1].seoMetadata # <<>>
    /\ unit.outB.article[1].comparisonTable = <<>>
    /\ unit.outB.article[1].faqs = <<>>
    /\ unit.outB.article[1].seoMetadata = <<>>
    /\ unit.outA.article[1].platformReviews
           = unit.outB.article[1].platformReviews

(***************************************************************************)
(* SpecDelete: deletePlatformFromCache (lines 909-929) on caches holding   *)
(* research and reviews of either vertical.  Each of the two try blocks    *)
(* may fail (localStorage throws); the block then leaves its cache as it   *)
(* was and the function goes on.                                           *)
(***************************************************************************)
\* mutant: a failure of the research-cache block ends the function
deletePlatformFromCache_abortOnFailure(research, reviews, platformName, researchFails, reviewFails) ==
    LET normalizedName == ToLowerCase(platformName) IN
    [research |-> IF researchFails THEN research
                  ELSE Remove(research, normalizedName),
     reviews |-> IF researchFails \/ reviewFails THEN reviews
                 ELSE Remove(reviews, normalizedName)]

deletePlatformFromCache(research, reviews, platformName, researchFails, reviewFails) ==
    LET normalizedName == ToLowerCase(platformName) IN
    [research |-> IF researchFails THEN research
                  ELSE Remove(research, normalizedName),
     reviews |-> IF reviewFails THEN reviews
                 ELSE Remove(reviews, normalizedName)]

DeleteNames == {"Acme", "ACME", "Bravo", "Charlie"}

NothingDeleted == [phase |-> "none"]

InitDelete ==
    /\ now = 0
    /\ call = IdleCall(<<>>)
    /\ history = <<>>
    /\ rt = IdleRt
    /\ cz = IdleCz
    /\ job = IdleJob
    /\ unit = NothingDeleted
    /\ \E researched \in 0..Len(AssembleNames), v \in Verticals :
         researchCache = ResearchedCache(AssembleRecords(v), researched, v, 0)
    /\ \E reviewed \in 0..Len(AssembleNames), v \in Verticals :
         reviewCache =
             ReviewedCache(AssembleRecords(v), reviewed,
                 Config(v, PlatformInputs(AssembleNames), AllSections, 5), 0)

DeletePlatform ==
    /\ \E platformName \in DeleteNames, researchFails \in BOOLEAN,
          reviewFails \in BOOLEAN :
       \E after \in {deletePlatformFromCache(researchCache, reviewCache,
                         platformName, researchFails, reviewFails)} :
         /\ researchCache' = after.research
         /\ reviewCache' = after.reviews
         /\ unit' = [phase |-> "deleted", platformName |-> platformName,
                     researchFailed |-> researchFails,
                     reviewFailed |-> reviewFails,
                     researchBefore |-> researchCache,
                     reviewsBefore |-> reviewCache]
    /\ UNCHANGED <<now, call, history, rt, cz, job>>

NextDelete == DeletePlatform

SpecDelete == InitDelete /\ [][NextDelete]_vars

\* the cache holds what it held before, but for the entry of the name
OnlyEntryGone(before, after, key) ==
    /\ DOMAIN after = DOMAIN before \ {key}
    /\ \A k \in DOMAIN after : after[k] = before[k]

\* C18: after deletePlatformFromCache(name) each cache whose block did not
\* fail has no entry for the platform - under the lower-cased name, so
\* whatever letter case the name is given in and whatever vertical the
\* entry was written under - and holds every other entry unchanged; a
\* cache whose block failed is as it was; a failure of the research-cache
\* block does not keep the review-cache entry from being deleted.
C18_Delete ==
    unit.phase = "deleted" =>
        LET key == ToLowerCase(unit.platformName) IN
        /\ IF unit.researchFailed
           THEN researchCache = unit.researchBefore
           ELSE /\ OnlyEntryGone(unit.researchBefore, researchCache, key)
                /\ \A v \in Verticals :
                      getFromResearchCache(researchCache, unit.platformName,
                                           v, now) = <<>>
        /\ IF unit.reviewFailed
           THEN reviewCache = unit.reviewsBefore
           ELSE /\ OnlyEntryGone(unit.reviewsBefore, reviewCache, key)
                /\ \A v \in Verticals :
                      getReviewFromCache(reviewCache, unit.platformName,
                                         v, now) = <<>>

\* 'ACME' was deleted while the research-cache block failed: the review
\* written for 'Acme' is gone, the other reviews and the research are kept
C18_Witness ==
    /\ unit.phase = "deleted"
    /\ unit.platformName = "ACME"
    /\ unit.researchFailed /\ ~unit.reviewFailed
    /\ "acme" \in DOMAIN unit.reviewsBefore
    /\ unit.reviewsBefore["acme"].platformName = "Acme"
    /\ "acme" \notin DOMAIN reviewCache
    /\ "bravo" \in DOMAIN reviewCache
    /\ "acme" \in DOMAIN researchCache

(***************************************************************************)
(* SpecParse: one call of researchPlatform or of generateIntroduction      *)
(* whose answers may be text that is not JSON                              *)
(***************************************************************************)
\* every request of these scripts ends at the last element: after at most
\* one 503 it is answered or rejected for good
ParseScripts(texts) ==
    { <<Resolve(t)>> : t \in texts }
        \cup { <<Reject(E503), Resolve(t)>> : t \in texts }
        \cup { <<Reject(E401)>> }

ParseResearchNets(researchModel) ==
    LET Msgs(texts) == { IF researchModel = PERPLEXITY_SONAR THEN SonarMsg(t)
                         ELSE TongyiMsg(t) : t \in texts }
    IN { [first |-> f, second |-> g] :
            f \in ParseScripts(Msgs({TextFull, TextSparse, TextHollow,
                                     TextGarbage})),
            g \in ParseScripts(Msgs({TextSparse, TextGarbage})) }

ParseConfig ==
    Config("gambling", PlatformInputs(<<"Acme">>), AllSections, 5)

InitParse ==
    /\ now = 0
    /\ researchCache = EmptyCache
    /\ reviewCache = EmptyCache
    /\ call = IdleCall(<<>>)
    /\ history = <<>>
    /\ rt = IdleRt
    /\ cz = IdleCz
    /\ job = IdleJob
    /\ \/ \E researchModel \in ResearchModels, vertical \in Verticals :
          \E net \in ParseResearchNets(researchModel) :
             unit = [phase |-> "ready", fn |-> "researchPlatform",
                     model |-> researchModel, vertical |-> vertical,
                     net |-> net, out |-> <<>>]
       \/ \E script \in ParseScripts({TextIntro, TextGarbage}) :
             unit = [phase |-> "ready", fn |-> "generateIntroduction",
                     model |-> TONGYI_DEEP_RESEARCH, vertical |-> "gambling",
                     net |-> [first |-> script, second |-> script],
                     out |-> <<>>]

RunResearchPlatform ==
    /\ unit.phase = "ready"
    /\ unit.fn = "researchPlatform"
    /\ \E r \in {researchPlatform("Acme", unit.vertical, unit.model,
                                  unit.net, now)} :
          unit' = [unit EXCEPT
                      !.phase = "done",
                      !.out = <<[threw |-> FALSE, events |-> r.events,
                                 status |-> r.record.researchStatus,
                                 error |-> r.record.error]>>]
    /\ UNCHANGED <<now, researchCache, reviewCache, call, history, rt, cz, job>>

RunGenerateIntroduction ==
    /\ unit.phase = "ready"
    /\ unit.fn = "generateIntroduction"
    /\ \E g \in {generateIntroduction(ParseConfig, <<>>, <<>>,
                                      unit.net.first)} :
          unit' = [unit EXCEPT
                      !.phase = "done",
                      !.out = <<[threw |-> g.threw, events |-> g.events,
                                 status |-> "", error |-> ""]>>]
    /\ UNCHANGED <<now, researchCache, reviewCache, call, history, rt, cz, job>>

NextParse ==
    \/ RunResearchPlatform
    \/ RunGenerateIntroduction

SpecParse == InitParse /\ [][NextParse]_vars

\* the script is answered with text that is not JSON
Unparseable(script) ==
    /\ script[Len(script)].ok
    /\ script[Len(script)].value \in
           {TextGarbage, TongyiMsg(TextGarbage), SonarMsg(TextGarbage)}

ParseCalls == CountType(unit.out[1].events, "call")

\* C23 as stated: after an answer that is not JSON no further request is
\* made, neither by withRetry nor by a generator nor by researchPlatform:
\* the requests made are the attempts of the request so answered.
C23_Claimed ==
    (unit.phase = "done" /\ Unparseable(unit.net.first))
        => ParseCalls = Len(unit.net.first)

\* C23 (amended): an answer that is not JSON is never retried by withRetry;
\* it makes a generator throw, and makes researchPlatform return the
\* degraded record, with no further request, except for the first answer
\* under the default research model: that answer counts as lacking good
\* data, and the verification request follows after a pause of 3000 ms.
C23_Amended ==
    unit.phase = "done" =>
        LET out == unit.out[1]
            first == unit.net.first
            second == unit.net.second
        IN /\ (unit.fn = "generateIntroduction" /\ Unparseable(first))
                 => out.threw /\ ParseCalls = Len(first)
           /\ (/\ unit.fn = "researchPlatform"
               /\ unit.model = PERPLEXITY_SONAR
               /\ Unparseable(first))
                 => /\ out.status = "error"
                    /\ ParseCalls = Len(first)
           /\ (/\ unit.fn = "researchPlatform"
               /\ unit.model = TONGYI_DEEP_RESEARCH
               /\ Unparseable(first))
                 => /\ ParseCalls = Len(first) + Len(second)
                    /\ \E i \in 1..Len(out.events) :
                          /\ out.events[i] = SleepEvent(3000)
                          /\ CountType(SubSeq(out.events, 1, i), "call")
                                = Len(first)
                    /\ Unparseable(second) => out.status = "error"

\* the default model answers garbage after one 503, the verification
\* request is sent and is answered with garbage too
C23_Witness ==
    /\ unit.phase = "done"
    /\ unit.fn = "researchPlatform"
    /\ unit.model = TONGYI_DEEP_RESEARCH
    /\ unit.net.first = <<Reject(E503), Resolve(TongyiMsg(TextGarbage))>>
    /\ unit.net.second = <<Resolve(TongyiMsg(TextGarbage))>>
    /\ ParseCalls = 3
    /\ unit.out[1].status = "error"
    /\ unit.out[1].error = "Invalid JSON format"

\* the infosheet fields of the answer that hold a value: a non-empty text
\* that is no placeholder, or a list with such an element
PopulatedFields(text) ==
    IF parseJsonResponse(text) = <<>> THEN 0
    ELSE LET info == parseJsonResponse(text)[1].infosheet IN
         Cardinality({k \in {"license", "country", "company",
                             "yearEstablished", "minDeposit", "payoutSpeed"} :
                         /\ info[k] # ""
                         /\ ToLowerCase(info[k]) \notin Placeholders})
         + Cardinality({k \in {"supportedCurrencies", "paymentMethods"} :
                         \E i \in 1..Len(info[k]) :
                            /\ info[k][i] # ""
                            /\ ToLowerCase(info[k][i]) \notin Placeholders})

\* C25 as stated: under the default research model the verification
\* request is issued exactly when the first answer does not populate at
\* least 5 infosheet fields with non-placeholder values.
C25_Claimed ==
    (/\ unit.phase = "done"
     /\ unit.fn = "researchPlatform"
     /\ unit.model = TONGYI_DEEP_RESEARCH
     /\ unit.net.first[Len(unit.net.first)].ok)
        => (ParseCalls > Len(unit.net.first)
               <=> PopulatedFields(
                       unit.net.first[Len(unit.net.first)].value.content) < 5)

(***************************************************************************)
(* SpecInterleave: two pipelines of one tab and the user's delete button,  *)
(* interleaved at the awaits of the pipelines.  What runs between two      *)
(* awaits is one action: the cache functions are synchronous.              *)
(***************************************************************************)
ResearchLoop(names) ==
    [kind |-> "research", names |-> names, records |-> <<>>, i |-> 1,
     completed |-> 0, pc |-> "loop", seen |-> EmptyCache]

\* the review loop of generateFullArticle or generateReviewsOnly
ReviewLoop(records) ==
    [kind |-> "reviews", names |-> NamesOf(records), records |-> records,
     i |-> 1, completed |-> 0, pc |-> "loop", seen |-> EmptyCache]

InterleaveRecords == AssembleRecords("gambling")

InterleavePairs ==
    { << ResearchLoop(<<"Acme", "Bravo">>),
         ResearchLoop(<<"Bravo", "Charlie">>) >>,
      << ResearchLoop(<<"Acme", "Bravo">>),
         ReviewLoop(SubSeq(InterleaveRecords, 1, 2)) >>,
      << ReviewLoop(SubSeq(InterleaveRecords, 1, 2)),
         ReviewLoop(SubSeq(InterleaveRecords, 2, 3)) >> }

InterleaveConfig ==
    Config("gambling", PlatformInputs(AssembleNames), AllSections, 5)

InitInterleave ==
    /\ now = 0
    /\ call = IdleCall(<<>>)
    /\ history = <<>>
    /\ rt = IdleRt
    /\ cz = IdleCz
    /\ job = IdleJob
    /\ reviewCache = EmptyCache
    /\ \E researched \in 0..1 :
          researchCache =
              ResearchedCache(InterleaveRecords, researched, "gambling", 0)
    /\ \E pair \in InterleavePairs, deletes \in 0..1 :
          unit = [phase |-> "run", p |-> pair, deletes |-> deletes,
                  written |-> [research |-> researchCache,
                               reviews |-> EmptyCache]]

\* lines 979-990: the cache is looked up; on a miss researchPlatform is
\* called and awaited
IlvCacheCheck ==
    \E q \in 1..2 :
       LET me == unit.p[q] IN
       /\ me.kind = "research" /\ me.pc = "loop" /\ me.i <= Len(me.names)
       /\ unit' = [unit EXCEPT !.p[q] =
             IF getFromResearchCache(researchCache, me.names[me.i],
                                     "gambling", now) # <<>>
             THEN [me EXCEPT !.i = @ + 1, !.completed = @ + 1]
             ELSE [me EXCEPT !.pc = "researching", !.seen = researchCache]]
       /\ UNCHANGED <<now, researchCache, reviewCache, call, history, rt, cz, job>>

\* mutant: the record is put into the cache object that was read before
\* researchPlatform was awaited
IlvResearched_staleCache ==
    \E q \in 1..2, net \in {GoodNet(TONGYI_DEEP_RESEARCH), BadNet} :
       LET me == unit.p[q]
           name == me.names[me.i]
       IN
       /\ me.kind = "research" /\ me.pc = "researching"
       /\ \E r \in {researchPlatform(name, "gambling", TONGYI_DEEP_RESEARCH,
                                     net, now).record} :
          /\ researchCache' =
                 saveToResearchCache(me.seen, name, r, "gambling", now)
          /\ unit' = [unit EXCEPT
                 !.p[q] = [me EXCEPT
                              !.i = @ + 1, !.completed = @ + 1,
                              !.pc = IF me.completed + 1 < Len(me.names)
                                     THEN "sleeping" ELSE "loop"],
                 !.written.research =
                     saveToResearchCache(@, name, r, "gambling", now)]
       /\ UNCHANGED <<now, reviewCache, call, history, rt, cz, job>>

\* lines 990-1002: researchPlatform has resolved; the record is saved and
\* the loop sleeps unless this was the last name
IlvResearched ==
    \E q \in 1..2, net \in {GoodNet(TONGYI_DEEP_RESEARCH), BadNet} :
       LET me == unit.p[q]
           name == me.names[me.i]
       IN
       /\ me.kind = "research" /\ me.pc = "researching"
       /\ \E r \in {researchPlatform(name, "gambling", TONGYI_DEEP_RESEARCH,
                                     net, now).record} :
          /\ researchCache' =
                 saveToResearchCache(researchCache, name, r, "gambling", now)
          /\ unit' = [unit EXCEPT
                 !.p[q] = [me EXCEPT
                              !.i = @ + 1, !.completed = @ + 1,
                              !.pc = IF me.completed + 1 < Len(me.names)
                                     THEN "sleeping" ELSE "loop"],
                 !.written.research =
                     Put(@, ToLowerCase(name),
                         [data |-> r, timestamp |-> now,
                          vertical |-> "gambling"])]
       /\ UNCHANGED <<now, reviewCache, call, history, rt, cz, job>>

IlvSleepDone ==
    \E q \in 1..2 :
       /\ unit.p[q].pc = "sleeping"
       /\ unit' = [unit EXCEPT !.p[q].pc = "loop"]
       /\ UNCHANGED <<now, researchCache, reviewCache, call, history, rt, cz, job>>

\* lines 2063 and 2177: generatePlatformReview is called and awaited
IlvReviewStart ==
    \E q \in 1..2 :
       LET me == unit.p[q] IN
       /\ me.kind = "reviews" /\ me.pc = "loop" /\ me.i <= Len(me.records)
       /\ unit' = [unit EXCEPT !.p[q] =
                      [me EXCEPT !.pc = "reviewing", !.seen = reviewCache]]
       /\ UNCHANGED <<now, researchCache, reviewCache, call, history, rt, cz, job>>

\* lines 2068-2071 and 2182-2185: the review is pushed and saved; an error
\* of generatePlatformReview ends the pipeline
IlvReviewed ==
    \E q \in 1..2, net \in {<<Resolve(TextReviewA)>>, <<Resolve(TextReviewB)>>,
                            <<Reject(E401)>>} :
       LET me == unit.p[q]
           research == me.records[me.i]
       IN
       /\ me.kind = "reviews" /\ me.pc = "reviewing"
       /\ \E g \in {generatePlatformReview(research, InterleaveConfig,
                        AffiliateUrlOf(InterleaveConfig, research.name),
                        net)} :
          IF g.threw
          THEN /\ unit' = [unit EXCEPT !.p[q].pc = "failed"]
               /\ UNCHANGED reviewCache
          ELSE /\ reviewCache' = saveReviewToCache(reviewCache, g.review[1],
                                     "gambling", now)
               /\ unit' = [unit EXCEPT
                      !.p[q] = [me EXCEPT !.i = @ + 1, !.completed = @ + 1,
                                          !.pc = "loop"],
                      !.written.reviews =
                          Put(@, ToLowerCase(research.name),
                              saveReviewToCache(EmptyCache, g.review[1],
                                  "gambling", now)[
                                      ToLowerCase(research.name)])]
       /\ UNCHANGED <<now, researchCache, call, history, rt, cz, job>>

\* the user deletes a platform while the pipelines are waiting
IlvDelete ==
    /\ unit.phase = "run"
    /\ unit.deletes > 0
    /\ \E platformName \in {"Acme", "Bravo"} :
       \E after \in {deletePlatformFromCache(researchCache, reviewCache,
                         platformName, FALSE, FALSE)} :
          /\ researchCache' = after.research
          /\ reviewCache' = after.reviews
          /\ unit' = [unit EXCEPT
                 !.deletes = @ - 1,
                 !.written.research = Remove(@, ToLowerCase(platformName)),
                 !.written.reviews = Remove(@, ToLowerCase(platformName))]
    /\ UNCHANGED <<now, call, history, rt, cz, job>>

NextInterleave ==
    \/ IlvCacheCheck
    \/ IlvResearched
    \/ IlvSleepDone
    \/ IlvReviewStart
    \/ IlvReviewed
    \/ IlvDelete

SpecInterleave == InitInterleave /\ [][NextInterleave]_vars

\* C29: however two pipelines and the deletes interleave at the awaits,
\* each cache holds for every key exactly what was last written under that
\* key (and no entry for a key deleted since): no write is lost or
\* reverted by a write to another key.
C29_NoLostWrite ==
    unit.phase = "run" =>
        /\ researchCache = unit.written.research
        /\ reviewCache = unit.written.reviews

\* the second research run saved Bravo while the first one, which had
\* saved Acme and found no Bravo, was waiting for its research of Bravo;
\* both entries are in the cache
C29_Witness ==
    /\ unit.phase = "run"
    /\ unit.p[1].kind = "research" /\ unit.p[2].kind = "research"
    /\ unit.p[1].pc = "researching" /\ unit.p[1].i = 2
    /\ "acme" \in DOMAIN unit.p[1].seen
    /\ "bravo" \notin DOMAIN unit.p[1].seen
    /\ unit.p[2].i = 2
    /\ DOMAIN researchCache = {"acme", "bravo"}

(***************************************************************************)
(* SpecApp: the workflow state of the App component (App.tsx lines         *)
(* 1123-1370) under runs of handleStartResearch and handleAssembleArticle, *)
(* one after the other.  unit holds the React state, history the outcomes  *)
(* of the finished runs.  null is <<>>, a value v is <<v>>.                *)
(***************************************************************************)
AppState ==
    [phase |-> "app", workflowPhase |-> "idle", loadingMessage |-> "",
     error |-> <<>>, appMode |-> "research", platformResearch |-> 0,
     generatedArticle |-> <<>>, pc |-> "idle", i |-> 0, total |-> 0]

\* mutant: the article of the previous run is kept
resetState_keepArticle(app) ==
    [app EXCEPT !.workflowPhase = "idle", !.platformResearch = 0,
                !.error = <<>>, !.loadingMessage = ""]

resetState(app) ==
    [app EXCEPT !.workflowPhase = "idle", !.platformResearch = 0,
                !.generatedArticle = <<>>, !.error = <<>>,
                !.loadingMessage = ""]

\* e.message || fallback
MessageOr(message, fallback) == IF message = "" THEN fallback ELSE message

ThrownMessages == {E401, ""}

InitApp ==
    /\ now = 0
    /\ researchCache = EmptyCache
    /\ reviewCache = EmptyCache
    /\ call = IdleCall(<<>>)
    /\ history = <<>>
    /\ rt = IdleRt
    /\ cz = IdleCz
    /\ job = IdleJob
    /\ unit = AppState

\* handleStartResearch up to its first await (lines 1226-1264); the user
\* may have changed the configuration before the click
AppStartResearch ==
    /\ unit.phase = "app" /\ unit.pc = "idle"
    /\ Len(history) < MaxAppRuns
    /\ \E verticalConfirmed \in BOOLEAN, platforms \in {0, 2} :
          unit' =
            IF ~verticalConfirmed
            THEN [unit EXCEPT !.error = <<"Please select a Content Vertical (Gambling or Crypto) before starting research.">>]
            ELSE IF platforms = 0
            THEN [unit EXCEPT !.error = <<"Please add at least one platform to review.">>]
            ELSE [resetState(unit) EXCEPT
                     !.workflowPhase = "researching",
                     !.appMode = "research",
                     !.platformResearch = platforms,
                     !.loadingMessage = "Researching platforms...",
                     !.pc = "researching", !.total = platforms]
    /\ UNCHANGED <<now, researchCache, reviewCache, call, history, rt, cz, job>>

\* researchAllPlatforms resolves (lines 1264-1284), or throws into the
\* catch block (lines 1316-1319)
AppResearched ==
    /\ unit.pc = "researching"
    /\ \/ /\ unit' = [unit EXCEPT !.pc = "reviews", !.i = 0,
                            !.loadingMessage = "Processing research data..."]
          /\ UNCHANGED history
       \/ \E message \in ThrownMessages :
            /\ unit' = [unit EXCEPT
                  !.error = <<MessageOr(message,
                                 "An unexpected error occurred.")>>,
                  !.workflowPhase = "error", !.pc = "idle"]
            /\ history' = Append(history, "researchFailed")
    /\ UNCHANGED <<now, researchCache, reviewCache, call, rt, cz, job>>

\* one turn of the review loop (lines 1288-1309): the review is written
\* and saved, or generatePlatformReview throws and the catch and finally
\* blocks run (lines 1316-1322)
AppReview ==
    /\ unit.pc = "reviews" /\ unit.i < unit.total
    /\ \/ /\ unit' = [unit EXCEPT !.i = @ + 1,
                                  !.loadingMessage = "Writing review"]
          /\ UNCHANGED history
       \/ \E message \in ThrownMessages :
            /\ unit' = [unit EXCEPT
                  !.error = <<MessageOr(message,
                                 "An unexpected error occurred.")>>,
                  !.workflowPhase = "error", !.pc = "idle"]
            /\ history' = Append(history, "researchFailed")
    /\ UNCHANGED <<now, researchCache, reviewCache, call, rt, cz, job>>

\* lines 1312-1314: the research run is complete
AppResearchComplete ==
    /\ unit.pc = "reviews" /\ unit.i = unit.total
    /\ unit' = [unit EXCEPT !.workflowPhase = "idle", !.loadingMessage = "",
                            !.pc = "idle"]
    /\ history' = Append(history, "researchOk")
    /\ UNCHANGED <<now, researchCache, reviewCache, call, rt, cz, job>>

\* handleAssembleArticle up to its await (lines 1326-1343)
AppStartAssemble ==
    /\ unit.phase = "app" /\ unit.pc = "idle"
    /\ Len(history) < MaxAppRuns
    /\ \E canAssemble \in BOOLEAN, verticalConfirmed \in BOOLEAN :
          unit' =
            IF ~canAssemble
            THEN [unit EXCEPT !.error = <<"Need at least 3 cached reviews to assemble an article. Continue researching more platforms.">>]
            ELSE IF ~verticalConfirmed
            THEN [unit EXCEPT !.error = <<"Please confirm the Content Vertical before assembling.">>]
            ELSE [resetState(unit) EXCEPT
                     !.workflowPhase = "generating-intro",
                     !.appMode = "assemble",
                     !.loadingMessage = "Assembling article from cached reviews...",
                     !.pc = "assembling"]
    /\ UNCHANGED <<now, researchCache, reviewCache, call, history, rt, cz, job>>

\* the onProgress callback of lines 1346-1354
AppAssembleProgress ==
    /\ unit.pc = "assembling"
    /\ \E reported \in {"generating-ratings", "generating-intro",
                        "generating-comparison", "generating-faqs",
                        "generating-seo"} :
          unit' = [unit EXCEPT !.workflowPhase =
                      IF reported = "generating-ratings"
                      THEN "generating-reviews" ELSE reported]
    /\ UNCHANGED <<now, researchCache, reviewCache, call, history, rt, cz, job>>

\* assembleArticleFromCache returns an article or null, or throws (lines
\* 1357-1369)
AppAssembleDone ==
    /\ unit.pc = "assembling"
    /\ \/ /\ unit' = [unit EXCEPT !.generatedArticle = <<"article">>,
                                  !.workflowPhase = "completed",
                                  !.pc = "idle"]
          /\ history' = Append(history, "assembled")
       \/ /\ unit' = [unit EXCEPT
                 !.error = <<"Failed to assemble article. Not enough cached data.">>,
                 !.workflowPhase = "error", !.pc = "idle"]
          /\ history' = Append(history, "assembleNull")
       \/ \E message \in ThrownMessages :
            /\ unit' = [unit EXCEPT
                  !.error = <<MessageOr(message,
                      "An unexpected error occurred during assembly.")>>,
                  !.workflowPhase = "error", !.pc = "idle"]
            /\ history' = Append(history, "assembleFailed")
    /\ UNCHANGED <<now, researchCache, reviewCache, call, rt, cz, job>>

NextApp ==
    \/ AppStartResearch
    \/ AppResearched
    \/ AppReview
    \/ AppResearchComplete
    \/ AppStartAssemble
    \/ AppAssembleProgress
    \/ AppAssembleDone

SpecApp == InitApp /\ [][NextApp]_vars

\* C30: whenever workflowPhase is 'completed' an article is present;
\* whenever it is 'error' a non-empty error message is set; and when the
\* last run was a research run that succeeded, the phase is 'idle' and no
\* article is present.
C30_Workflow ==
    unit.phase = "app" =>
        /\ unit.workflowPhase = "completed" => unit.generatedArticle # <<>>
        /\ unit.workflowPhase = "error" =>
              unit.error # <<>> /\ unit.error[1] # ""
        /\ (/\ unit.pc = "idle"
            /\ history # <<>>
            /\ history[Len(history)] = "researchOk")
              => /\ unit.workflowPhase = "idle"
                 /\ unit.generatedArticle = <<>>

\* an article was assembled, and the research run that followed it
\* succeeded
C30_Witness ==
    /\ unit.phase = "app"
    /\ history = <<"assembled", "researchOk">>
    /\ unit.pc = "idle"
    /\ unit.workflowPhase = "idle"
    /\ unit.generatedArticle = <<>>

====
